---- MODULE Spec2Model ----
(***************************************************************************)
(* Enzyme kinetics E + S <-> ES <-> EP <-> E + P as a tau-leaping step     *)
(* kernel (src/lib/precise-simulation.ts), its binomial sampler, and the   *)
(* step drivers behind src/lib/wasm-sim.ts.                                *)
(*                                                                         *)
(* Numbers.  Species counts and snapshot counts are fixed-point, in units   *)
(* of 1/CountScale; sampled molecule numbers are integers.  Rate constants *)
(* are fixed-point in units of 1/RateUnit, hazards in units of 1/HUnit.    *)
(* Probabilities are fixed-point, in units of 1/PScale.  The random source *)
(* (Math.random) is a nondeterministic input: every call of sampleBinomial *)
(* receives a draw record that says what the uniform variates it consumes  *)
(* amount to:                                                              *)
(*   hits  how many of the Bernoulli trials find randF64() < pp            *)
(*   pois  how many iterations the do-while loop of samplePoisson makes    *)
(*   z     the standard-normal variate randStdNormal() returns             *)
(***************************************************************************)
EXTENDS Integers, Sequences, FiniteSets, TLC

VARIABLES bin, state, params, prev, blk, ticks, drv,
          eng, host, store, runner, obs

vars == <<bin, state, params, prev, blk, ticks, drv,
          eng, host, store, runner, obs>>

\* the variables of the engine, its host, the store and the runner
appVars == <<eng, host, store, runner, obs>>

\* the variables of the kernel, sampler and driver specifications
coreVars == <<bin, state, params, prev, blk, ticks, drv>>

----------------------------------------------------------------------------
(* Fixed-point units and arithmetic helpers                                *)

\* resolution of a probability: p = P / PScale
PScale == 10 * 10 * 10

\* resolution of a hazard: lambda = L / HUnit
HUnit == 5 + 5

\* resolution of a rate constant: k = K / RateUnit
RateUnit == HUnit * HUnit * HUnit

Max(a, b) == IF a >= b THEN a ELSE b

\* A species count, as a Decimal or as a JavaScript number, is held in
\* fixed point: the value c stands for the count c / CountScale, so that
\* counts with a fractional part .5 can be told from integers
CountScale == 1 + 1

\* the count value of the integer n
Whole(n) == n * CountScale

\* Math.floor of a count value, an integer
MathFloorCount(c) == c \div CountScale

\* Math.round of a count value, an integer (ties go up)
MathRoundCount(c) == (2 * c + CountScale) \div (2 * CountScale)

\* whether a count value is an integer
IsWhole(c) == c % CountScale = 0

\* the hazard k * c of a rate constant and a count, and the hazard of a rate
\* constant alone, on the hazard grid: a positive hazard below the grid's
\* resolution is its smallest positive value
CountHazard(k, c) ==
    IF k > 0 /\ c > 0
    THEN Max(1, (k * c) \div ((RateUnit \div HUnit) * CountScale)) ELSE 0

RateHazard(k) == IF k > 0 THEN Max(1, k \div (RateUnit \div HUnit)) ELSE 0

Min(a, b) == IF a <= b THEN a ELSE b

\* Math.round of the fixed-point value x / PScale (ties go up)
MathRound(x) == (2 * x + PScale) \div (2 * PScale)

RECURSIVE SqrtSearch(_, _, _)
SqrtSearch(v, lo, hi) ==
    IF lo >= hi THEN lo
    ELSE LET mid == (lo + hi + 1) \div 2
         IN  IF mid * mid <= v THEN SqrtSearch(v, mid, hi)
             ELSE SqrtSearch(v, lo, mid - 1)

\* Math.sqrt on fixed point: the argument is in units of 1/PScale^2, the
\* result in units of 1/PScale (rounded down)
MathSqrt(v) == IF v <= 0 THEN 0 ELSE SqrtSearch(v, 0, 46340)

\* floor(PScale * exp(-i/HUnit)) for i = 0..HUnit-1
ExpNegTable == <<1000, 904, 818, 740, 670, 606, 548, 496, 449, 406>>

\* Math.exp(-x) for a hazard x >= 0 given in units of 1/HUnit, in units of
\* 1/PScale: exp(-(x+1)) = exp(-x) * exp(-1), exp(-1) = 0.367...
RECURSIVE MathExpNeg(_)
MathExpNeg(x) ==
    IF x < HUnit THEN ExpNegTable[x + 1]
    ELSE (MathExpNeg(x - HUnit) * 367) \div PScale

\* In IEEE doubles 1 - Math.exp(-x) is exactly 1 from x = 37.5 on (exp(-x)
\* is then below half an ulp of 1) and lies strictly between 0 and 1 for
\* every smaller hazard on the 1/HUnit grid.
SaturationHazard == 37 * HUnit + 5

\* Math.exp(-x) tabulated below the saturation point
ExpNegValues == [x \in 0 .. SaturationHazard |-> MathExpNeg(x)]

\* 1 - Math.exp(-x), x >= 0 in units of 1/HUnit
OneMinusExpNeg(x) ==
    IF x <= 0 THEN 0
    ELSE IF x >= SaturationHazard THEN PScale
    ELSE Max(1, Min(PScale - 1, PScale - ExpNegValues[x]))

\* a / b for doubles 0 <= a <= b, b > 0: exactly 0 or 1 only when a = 0 or
\* a = b, strictly in between otherwise
Quotient(a, b) ==
    IF a <= 0 THEN 0
    ELSE IF a >= b THEN PScale
    ELSE Max(1, Min(PScale - 1, (a * PScale) \div b))

----------------------------------------------------------------------------
(* Random helpers and the binomial sampler                                 *)

\* a draw whose Bernoulli trials hit h times
BernoulliDraw(h) == [hits |-> h, pois |-> 1, z |-> 0]

\* |z| <= sqrt(-2 ln 1e-12) = 7.43: both uniforms are floored at 1e-12
ZMax == 7

\* randStdNormal(): Box-Muller over two uniforms; the variate is the draw's
\* z, and two uniforms are consumed
randStdNormal(rnd) == [z |-> rnd.z, used |-> 2]

\* samplePoisson(lambda): Knuth's multiply-until-below-exp(-lambda) loop.
\* The loop body runs rnd.pois >= 1 times, one uniform each, and the
\* function returns the iteration count minus one.
samplePoisson(lambda, rnd) ==
    IF lambda <= 0 THEN [k |-> 0, used |-> 0]
    ELSE [k |-> rnd.pois - 1, used |-> rnd.pois]

\* the loop "for i < nn: if (randF64() < pp) c += 1": trial i hits when it
\* is among the rnd.hits hitting trials
BernoulliSum(nn, rnd) ==
    [k |-> Cardinality({i \in 0 .. (nn - 1) : i < rnd.hits}), used |-> nn]

\* if (k < 0) k = 0
ClampLow(k) == IF k < 0 THEN 0 ELSE k

\* if (k > nn) k = nn
ClampHigh(k, nn) == IF k > nn THEN nn ELSE k

\* the Poisson branch without its clamp to nn
PoissonBranchNoClamp(nn, mean, rnd) == samplePoisson(mean, rnd)

\* the Poisson branch: k = samplePoisson(mean), clamped to nn
PoissonBranch(nn, mean, rnd) ==
    [k |-> ClampHigh(samplePoisson(mean, rnd).k, nn),
     used |-> samplePoisson(mean, rnd).used]

\* the normal branch: round(mean + z * sqrt(variance)) clamped to [0, nn]
NormalBranch(nn, mean, variance, rnd) ==
    [k |-> ClampHigh(ClampLow(MathRound(mean + randStdNormal(rnd).z
                                               * MathSqrt(variance))), nn),
     used |-> randStdNormal(rnd).used]

\* thresholds of the strategy choice
SmallN == 50

SmallMean == 30

\* the strategy choice on nn and mean
SampleByStrategy(nn, mean, variance, rnd) ==
    IF nn < SmallN THEN BernoulliSum(nn, rnd)
    ELSE IF mean < SmallMean * PScale THEN PoissonBranch(nn, mean, rnd)
    ELSE NormalBranch(nn, mean, variance, rnd)

\* return mutate ? nn - k : k
Unflip(mutate, nn, r) == [k |-> IF mutate THEN nn - r.k ELSE r.k, used |-> r.used]

\* sampleBinomial from "const mean = nn * pp" on
SampleWithMean(nn, mutate, pp, mean, rnd) ==
    Unflip(mutate, nn, SampleByStrategy(nn, mean, mean * (PScale - pp), rnd))

\* sampleBinomial from "const mutate = pp > 0.5" on: p folded to <= 0.5
SampleFolded(nn, mutate, pp, rnd) == SampleWithMean(nn, mutate, pp, nn * pp, rnd)

\* the early returns without the one for p >= 1
EarlyReturnsNoCertain(nn, pc, rnd) ==
    IF nn <= 0 \/ pc <= 0 THEN [k |-> 0, used |-> 0]
    ELSE SampleFolded(nn, 2 * pc > PScale,
                      IF 2 * pc > PScale THEN PScale - pc ELSE pc, rnd)

\* sampleBinomial after the clamping of n and p: the early returns
\* "if (nn <= 0 || pp <= 0) return 0; if (pp >= 1) return nn", then the
\* sampling
EarlyReturns(nn, pc, rnd) ==
    IF nn <= 0 \/ pc <= 0 THEN [k |-> 0, used |-> 0]
    ELSE IF pc >= PScale THEN [k |-> nn, used |-> 0]
    ELSE SampleFolded(nn, 2 * pc > PScale,
                      IF 2 * pc > PScale THEN PScale - pc ELSE pc, rnd)

\* sampleBinomial(n, p): result k and the number of uniforms consumed.
\* p is in units of 1/PScale; mean in 1/PScale, variance in 1/PScale^2.
sampleBinomial(n, p, rnd) ==
    EarlyReturns(Max(0, n), Max(0, Min(PScale, p)), rnd)

----------------------------------------------------------------------------
(* Decimal values that may be absent or non-finite (dt, TIEMPO)            *)

Num(v) == [kind |-> "finite", val |-> v]

Undefined == [kind |-> "undefined", val |-> 0]

\* Decimal.plus
DecimalPlus(a, b) ==
    IF a.kind = "nan" \/ b.kind = "nan" THEN [kind |-> "nan", val |-> 0]
    ELSE IF a.kind = "infinity" \/ b.kind = "infinity"
    THEN [kind |-> "infinity", val |-> 0]
    ELSE Num(a.val + b.val)

----------------------------------------------------------------------------
(* The tau-leap step kernel: simulateTick                                  *)

\* createStateFromNumbers
createStateFromNumbers(EL, ES, EP, S, P, TIEMPO) ==
    [EL |-> EL, ES |-> ES, EP |-> EP, S |-> S, P |-> P, TIEMPO |-> TIEMPO]

\* const DT = params.dt ?? new Decimal(1)
StepDT(par) == IF par.dt.kind = "undefined" THEN Num(1) ELSE par.dt

\* const dtNum = DT.isFinite() && DT.greaterThan(0) ? DT.toNumber() : 1
StepDtNum(par) ==
    LET DT == StepDT(par)
    IN  IF DT.kind = "finite" /\ DT.val > 0 THEN DT.val ELSE 1

\* "Ensure all initial values are non-negative"
ClampState(st) ==
    [st EXCEPT !.EL = Max(st.EL, 0), !.ES = Max(st.ES, 0), !.EP = Max(st.EP, 0),
               !.S = Max(st.S, 0), !.P = Max(st.P, 0)]

\* the caps without the reassignment of overflow
CapOnly(nEsRaw, nEpRaw, sAvail, pAvail) ==
    [nEs |-> Min(nEsRaw, sAvail), nEp |-> Min(nEpRaw, pAvail)]

\* no resource cap at all
CapNone(nEsRaw, nEpRaw, sAvail, pAvail) == [nEs |-> nEsRaw, nEp |-> nEpRaw]

\* "Cap by available S/P and reassign overflow symmetrically"
CapAndReassign(nEsRaw, nEpRaw, sAvail, pAvail) ==
    LET nEs0 == Min(nEsRaw, sAvail)
        nEp0 == Min(nEpRaw, pAvail)
        sLeft == sAvail - nEs0
        pLeft == pAvail - nEp0
        overflowEs == nEsRaw - nEs0
        overflowEp == nEpRaw - nEp0
    IN  [nEs |-> IF overflowEp > 0 /\ sLeft > 0
                 THEN nEs0 + Min(overflowEp, sLeft) ELSE nEs0,
         nEp |-> IF overflowEs > 0 /\ pLeft > 0
                 THEN nEp0 + Min(overflowEs, pLeft) ELSE nEp0]

\* the E block's pTot computed from the rates alone, whatever S and P are
EBlockPTotRatesOnly(cur, par) ==
    LET lambda1 == RateHazard(par.k1)
        lambda2 == RateHazard(par.kMinus3)
        lambdaSum == lambda1 + lambda2
    IN  IF lambdaSum > 0 THEN OneMinusExpNeg(lambdaSum * StepDtNum(par)) ELSE 0

\* pTot and frac1 of the E block, read from the current S and P
EBlockPTot(cur, par) ==
    LET lambda1 == CountHazard(par.k1, cur.S)
        lambda2 == CountHazard(par.kMinus3, cur.P)
        lambdaSum == lambda1 + lambda2
    IN  IF lambdaSum > 0 THEN OneMinusExpNeg(lambdaSum * StepDtNum(par)) ELSE 0

\* frac1 kept strictly below 1 even when only the first channel has a rate
EBlockFracBelowOne(cur, par) ==
    LET lambda1 == CountHazard(par.k1, cur.S)
        lambda2 == CountHazard(par.kMinus3, cur.P)
        lambdaSum == lambda1 + lambda2
    IN  IF lambdaSum > 0
        THEN Max(0, Min(PScale - 1, Quotient(lambda1, lambdaSum))) ELSE 0

\* frac1 = lambdaSum > 0 ? max(0, min(1, lambda1 / lambdaSum)) : 0
EBlockFrac(cur, par) ==
    LET lambda1 == CountHazard(par.k1, cur.S)
        lambda2 == CountHazard(par.kMinus3, cur.P)
        lambdaSum == lambda1 + lambda2
    IN  IF lambdaSum > 0
        THEN Max(0, Min(PScale, Quotient(lambda1, lambdaSum))) ELSE 0

\* the E block from the caps on: b1 and b2 are the results of its two
\* sampleBinomial calls
EBlockCapped(nel, b1, b2, sAvail, pAvail, cap) ==
    [nel |-> nel, nReact |-> b1.k, nEsRaw |-> b2.k, nEpRaw |-> b1.k - b2.k,
     sAvail |-> sAvail, pAvail |-> pAvail, nEs |-> cap.nEs, nEp |-> cap.nEp,
     used |-> b1.used + b2.used]

\* the E block from "const nEsRaw = sampleBinomial(nReact, frac1)" on
EBlockSplit(nel, b1, b2, sAvail, pAvail) ==
    EBlockCapped(nel, b1, b2, sAvail, pAvail,
                 CapAndReassign(b2.k, b1.k - b2.k, sAvail, pAvail))

\* the E block from "const nReact = sampleBinomial(nel, pTot)" on
EBlockReact(cur, par, nel, b1, r2) ==
    EBlockSplit(nel, b1, sampleBinomial(b1.k, EBlockFrac(cur, par), r2),
                Max(0, MathFloorCount(cur.S)), Max(0, MathFloorCount(cur.P)))

\* the locals of the E block: free enzymes, snapshot NEL
EBlockLocals(cur, par, r1, r2) ==
    EBlockReact(cur, par, Max(0, MathRoundCount(par.NEL)),
                sampleBinomial(Max(0, MathRoundCount(par.NEL)), EBlockPTot(cur, par), r1), r2)

\* "Apply updates" of the E block
EBlockApply(cur, l) ==
    [cur EXCEPT !.EL = cur.EL - Whole(l.nEs + l.nEp), !.ES = cur.ES + Whole(l.nEs),
                !.EP = cur.EP + Whole(l.nEp), !.S = cur.S - Whole(l.nEs),
                !.P = cur.P - Whole(l.nEp)]

\* pTot and the backward fraction of a complex block with rates kBack, kFwd
ComplexPTot(kBack, kFwd, par) ==
    LET lambdaSum == RateHazard(kBack) + RateHazard(kFwd)
    IN  IF lambdaSum > 0 THEN OneMinusExpNeg(lambdaSum * StepDtNum(par)) ELSE 0

ComplexFrac(kBack, kFwd) ==
    LET lambdaBack == Max(0, kBack)
        lambdaSum == lambdaBack + Max(0, kFwd)
    IN  IF lambdaSum > 0
        THEN Max(0, Min(PScale, Quotient(lambdaBack, lambdaSum))) ELSE 0

\* the ES block from "const toEL = sampleBinomial(nReact, fracBack)" on
ESBlockSplit(nes, b1, b2) ==
    [nes |-> nes, nReact |-> b1.k, toEL |-> b2.k, toEP |-> b1.k - b2.k,
     used |-> b1.used + b2.used]

\* the ES block from "const nReact = sampleBinomial(nes, pTot)" on
ESBlockReact(par, nes, b1, r4) ==
    ESBlockSplit(nes, b1,
                 sampleBinomial(b1.k, ComplexFrac(par.kMinus1, par.k2), r4))

\* the locals of the ES block: complexes ES, snapshot NES
ESBlockLocals(par, r3, r4) ==
    ESBlockReact(par, Max(0, MathRoundCount(par.NES)),
                 sampleBinomial(Max(0, MathRoundCount(par.NES)),
                                ComplexPTot(par.kMinus1, par.k2, par), r3), r4)

\* the ES update that forgets to return the substrate of ES -> E + S
ESBlockApplyNoSubstrate(cur, l) ==
    [cur EXCEPT !.EL = cur.EL + Whole(l.toEL),
                !.ES = cur.ES - Whole(l.toEL + l.toEP),
                !.EP = cur.EP + Whole(l.toEP)]

\* the updates of the ES block
ESBlockApply(cur, l) ==
    [cur EXCEPT !.EL = cur.EL + Whole(l.toEL),
                !.ES = cur.ES - Whole(l.toEL + l.toEP),
                !.S = cur.S + Whole(l.toEL), !.EP = cur.EP + Whole(l.toEP)]

\* the EP block from "const toES = sampleBinomial(nReact, fracBack)" on
EPBlockSplit(nep, b1, b2) ==
    [nep |-> nep, nReact |-> b1.k, toES |-> b2.k, toE |-> b1.k - b2.k,
     used |-> b1.used + b2.used]

\* the EP block from "const nReact = sampleBinomial(nep, pTot)" on
EPBlockReact(par, nep, b1, r6) ==
    EPBlockSplit(nep, b1,
                 sampleBinomial(b1.k, ComplexFrac(par.kMinus2, par.k3), r6))

\* the locals of the EP block: complexes EP, snapshot NEP
EPBlockLocals(par, r5, r6) ==
    EPBlockReact(par, Max(0, MathRoundCount(par.NEP)),
                 sampleBinomial(Max(0, MathRoundCount(par.NEP)),
                                ComplexPTot(par.kMinus2, par.k3, par), r5), r6)

\* the updates of the EP block
EPBlockApply(cur, l) ==
    [cur EXCEPT !.ES = cur.ES + Whole(l.toES),
                !.EP = cur.EP - Whole(l.toES + l.toE),
                !.EL = cur.EL + Whole(l.toE), !.P = cur.P + Whole(l.toE)]

\* no final clamp at all
FinalClampNone(st) == st

\* "Final safety check: ensure no negative values"
FinalClamp(st) == ClampState(st)

\* the time advanced by 1 whatever dt is
AdvanceTimeByOne(TIEMPO, par) == DecimalPlus(TIEMPO, Num(1))

\* "Increment time by dt": TIEMPO.plus(DT)
AdvanceTime(TIEMPO, par) == DecimalPlus(TIEMPO, StepDT(par))

\* the ES and EP blocks fed the counts the earlier blocks of the same step
\* left, instead of the snapshot taken before the step
TickRunFeedback(st, par, rnd) ==
    LET s0 == ClampState(st)
        eb == EBlockLocals(s0, par, rnd[1], rnd[2])
        s1 == EBlockApply(s0, eb)
        es == ESBlockLocals([par EXCEPT !.NES = s1.ES], rnd[3], rnd[4])
        s2 == ESBlockApply(s1, es)
        ep == EPBlockLocals([par EXCEPT !.NEP = s2.EP], rnd[5], rnd[6])
        s3 == EPBlockApply(s2, ep)
        s4 == FinalClamp(s3)
    IN  [out |-> [s4 EXCEPT !.TIEMPO = AdvanceTime(st.TIEMPO, par)],
         eb |-> eb, afterE |-> s1, es |-> es, ep |-> ep, unclamped |-> s3,
         used |-> eb.used + es.used + ep.used]

\* simulateTick(state, params) with what it computes on the way.  rnd is
\* the tuple of the six draws of its six sampleBinomial calls, in call
\* order; out is the returned state, afterE the state after the E block,
\* unclamped the state before the final clamp, used the uniforms consumed.
TickRun(st, par, rnd) ==
    LET s0 == ClampState(st)
        eb == EBlockLocals(s0, par, rnd[1], rnd[2])
        s1 == EBlockApply(s0, eb)
        es == ESBlockLocals(par, rnd[3], rnd[4])
        s2 == ESBlockApply(s1, es)
        ep == EPBlockLocals(par, rnd[5], rnd[6])
        s3 == EPBlockApply(s2, ep)
        s4 == FinalClamp(s3)
    IN  [out |-> [s4 EXCEPT !.TIEMPO = AdvanceTime(st.TIEMPO, par)],
         eb |-> eb, afterE |-> s1, es |-> es, ep |-> ep, unclamped |-> s3,
         used |-> eb.used + es.used + ep.used]

simulateTick(st, par, rnd) == TickRun(st, par, rnd).out

----------------------------------------------------------------------------
(* Values the variables hold while another specification runs              *)

IdleBin == [n |-> 0, p |-> 0, rnd |-> BernoulliDraw(0), k |-> 0, used |-> 0,
            pc |-> "idle"]

ZeroState == createStateFromNumbers(0, 0, 0, 0, 0, Num(0))

ZeroParams == [NEL |-> 0, NES |-> 0, NEP |-> 0, k1 |-> 0, kMinus3 |-> 0,
               kMinus1 |-> 0, k2 |-> 0, kMinus2 |-> 0, k3 |-> 0, dt |-> Undefined]

NoDraws == <<BernoulliDraw(0), BernoulliDraw(0), BernoulliDraw(0),
             BernoulliDraw(0), BernoulliDraw(0), BernoulliDraw(0)>>

\* what is kept of a tick for inspection: the locals of the three blocks,
\* E, S and P as the E block leaves them, whether the final clamp changed
\* a count, and the number of uniforms consumed
TickTrace(run) ==
    [nel |-> run.eb.nel, nReact |-> run.eb.nReact, nEsRaw |-> run.eb.nEsRaw,
     nEpRaw |-> run.eb.nEpRaw, sAvail |-> run.eb.sAvail, pAvail |-> run.eb.pAvail,
     nEs |-> run.eb.nEs, nEp |-> run.eb.nEp,
     elAfterE |-> run.afterE.EL, sAfterE |-> run.afterE.S, pAfterE |-> run.afterE.P,
     nes |-> run.es.nes, esReact |-> run.es.nReact, toEL |-> run.es.toEL,
     toEP |-> run.es.toEP,
     nep |-> run.ep.nep, epReact |-> run.ep.nReact, toES |-> run.ep.toES,
     toE |-> run.ep.toE,
     clampChanged |-> (FinalClamp(run.unclamped) # run.unclamped),
     used |-> run.used]

NoBlocks == TickTrace(TickRun(ZeroState, ZeroParams, NoDraws))

NoResult == [status |-> "none", st |-> <<>>, seq |-> <<>>, calls |-> 0, used |-> 0]

IdleDrv == [ready |-> FALSE, cur |-> <<>>, par |-> <<>>, steps |-> 0,
            taped |-> FALSE, tape |-> <<>>, final |-> NoResult, series |-> NoResult]

\* the engine, host, store and runner while no engine exists
IdleApp ==
    /\ eng = <<>> /\ host = <<>> /\ store = <<>> /\ runner = <<>> /\ obs = <<>>

----------------------------------------------------------------------------
(* Specification SpecBinomial: sampleBinomial applied to bounded inputs    *)

BinomialNs == {-1, 0, 1, 2, 49, 50, 60, 1000}

BinomialPs == {-100, 0, 1, 30, 300, 500, 501, 700, 970, 999, 1000, 1200}

BinomialDraws == [hits : {0, 1, 2, 49}, pois : {1, 2, 52, 1002}, z : (-ZMax) .. ZMax]

InitBinomial ==
    /\ bin \in [n : BinomialNs, p : BinomialPs, rnd : BinomialDraws,
                k : {0}, used : {0}, pc : {"call"}]
    /\ state = ZeroState
    /\ params = ZeroParams
    /\ prev = ZeroState
    /\ blk = NoBlocks
    /\ ticks = 0
    /\ drv = IdleDrv
    /\ IdleApp

CallSampleBinomial ==
    /\ bin.pc = "call"
    /\ LET r == sampleBinomial(bin.n, bin.p, bin.rnd)
       IN  bin' = [bin EXCEPT !.k = r.k, !.used = r.used, !.pc = "done"]
    /\ UNCHANGED <<state, params, prev, blk, ticks, drv, appVars>>

NextBinomial == CallSampleBinomial

SpecBinomial == InitBinomial /\ [][NextBinomial]_vars

\* C4: sampleBinomial(n, p) with n >= 0 and p in [0, 1] returns k with
\* 0 <= k <= n, whatever the draws are, in the Bernoulli, Poisson and normal
\* strategies and after the symmetry flip n - k.
C4_BinomialWithinRange ==
    (bin.pc = "done" /\ bin.n >= 0 /\ bin.p >= 0 /\ bin.p <= PScale)
        => (0 <= bin.k /\ bin.k <= bin.n)

\* a Poisson-strategy call whose raw variate exceeds n and is clamped to n
C4_Witness ==
    /\ bin.pc = "done"
    /\ bin.n = SmallN /\ bin.p = 500
    /\ bin.rnd.pois - 1 > bin.n
    /\ bin.k = bin.n

\* C5: sampleBinomial returns 0 and consumes no uniform when n <= 0 or
\* p <= 0, and returns n and consumes no uniform when p >= 1 and n > 0.
C5_BinomialDegenerate ==
    bin.pc = "done" =>
        /\ (bin.n <= 0 \/ bin.p <= 0) => (bin.k = 0 /\ bin.used = 0)
        /\ (bin.n > 0 /\ bin.p >= PScale) => (bin.k = bin.n /\ bin.used = 0)

\* a call with p = 1 on a population of two
C5_Witness ==
    /\ bin.pc = "done"
    /\ bin.n = 2 /\ bin.p = PScale
    /\ bin.k = 2 /\ bin.used = 0

----------------------------------------------------------------------------
(* Specification Spec: a caller that holds a state and calls simulateTick  *)
(* with the snapshot counts taken from that state, step after step         *)

\* largest initial total of the enzyme forms E + ES + EP
MaxEnzyme == 2

\* largest initial total of free substrate and product S + P
MaxSubstrate == 2

\* longest run of consecutive ticks
MaxTicks == 2

\* rate constants: 0 and 15.0
RateSet == {0, 15 * RateUnit}

DtSet == {Undefined, Num(3)}

RateVectors ==
    [k1 : RateSet, kMinus3 : RateSet, kMinus1 : RateSet, k2 : RateSet,
     kMinus2 : RateSet, k3 : RateSet, dt : DtSet]

\* the overflow reassignment example: E = 100, S = 5, no P, no complexes,
\* k1 = 1000 and k-3 = 0
OverflowExample == createStateFromNumbers(Whole(100), 0, 0, Whole(5), 0, Num(0))

ExampleVectors == {rv \in RateVectors : rv.kMinus3 = 0 /\ rv.k1 # 0}

ExampleRates(rv) == [rv EXCEPT !.k1 = 1000 * RateUnit]

InitStates ==
    {st \in {createStateFromNumbers(Whole(e), Whole(es), Whole(ep), Whole(s),
                                    Whole(p), Num(0)) :
                e \in 0 .. MaxEnzyme, es \in 0 .. MaxEnzyme, ep \in 0 .. MaxEnzyme,
                s \in 0 .. MaxSubstrate, p \in 0 .. MaxSubstrate} :
        /\ st.EL + st.ES + st.EP <= Whole(MaxEnzyme)
        /\ st.S + st.P <= Whole(MaxSubstrate)}

\* the params object of a call: the snapshot counts and the rate vector
TickParams(NEL, NES, NEP, rv) ==
    [NEL |-> NEL, NES |-> NES, NEP |-> NEP, k1 |-> rv.k1, kMinus3 |-> rv.kMinus3,
     kMinus1 |-> rv.kMinus1, k2 |-> rv.k2, kMinus2 |-> rv.kMinus2, k3 |-> rv.k3,
     dt |-> rv.dt]

\* draws of a large-population call: Poisson loop counts and normal variates
LargeDraws ==
    [hits : {0}, pois : {1, 2, SmallN + 2, 20 * SmallN + 2}, z : {-ZMax, -1, 0, 1, ZMax}]

\* every outcome the random source can give one sampleBinomial(n, p) call
DrawsFor(n, p) ==
    IF n <= 0 \/ p <= 0 \/ p >= PScale THEN {BernoulliDraw(0)}
    ELSE IF n < SmallN THEN {BernoulliDraw(h) : h \in 0 .. n}
    ELSE LargeDraws

\* the draws of a block: a first call on n with pTot, a second call on the
\* first call's result with frac
BlockDraws(n, pTot, frac) ==
    UNION {{<<a, b>> : b \in DrawsFor(sampleBinomial(n, pTot, a).k, frac)} :
              a \in DrawsFor(n, pTot)}

\* every outcome of the six draws of simulateTick(st, par)
TickDraws(st, par) ==
    LET s0 == ClampState(st)
    IN  {<<e[1], e[2], c[1], c[2], d[1], d[2]>> :
            e \in BlockDraws(MathRoundCount(par.NEL), EBlockPTot(s0, par),
                             EBlockFrac(s0, par)),
            c \in BlockDraws(MathRoundCount(par.NES),
                             ComplexPTot(par.kMinus1, par.k2, par),
                             ComplexFrac(par.kMinus1, par.k2)),
            d \in BlockDraws(MathRoundCount(par.NEP),
                             ComplexPTot(par.kMinus2, par.k3, par),
                             ComplexFrac(par.kMinus2, par.k3))}

Init ==
    /\ bin = IdleBin
    /\ \/ /\ state \in InitStates
          /\ \E rv \in RateVectors :
                params = TickParams(state.EL, state.ES, state.EP, rv)
       \/ /\ state = OverflowExample
          /\ \E rv \in ExampleVectors :
                params = TickParams(state.EL, state.ES, state.EP, ExampleRates(rv))
    /\ prev = state
    /\ blk = NoBlocks
    /\ ticks = 0
    /\ drv = IdleDrv
    /\ IdleApp

\* one step of the caller: snapshot the counts, call simulateTick, keep
\* the returned state
SnapshotTick ==
    /\ ticks < MaxTicks
    /\ LET par == [params EXCEPT !.NEL = Whole(MathRoundCount(state.EL)),
                                 !.NES = Whole(MathRoundCount(state.ES)),
                                 !.NEP = Whole(MathRoundCount(state.EP))]
       IN  \E rnd \in TickDraws(state, par) :
              LET run == TickRun(state, par, rnd)
              IN  /\ state' = run.out
                  /\ blk' = TickTrace(run)
                  /\ params' = par
    /\ prev' = state
    /\ ticks' = ticks + 1
    /\ UNCHANGED <<bin, drv, appVars>>

Next == SnapshotTick

Spec == Init /\ [][Next]_vars

EnzymeTotal(st) == st.EL + st.ES + st.EP

SubstrateTotal(st) == st.S + st.P + st.ES + st.EP

WholeCounts(st) ==
    /\ IsWhole(st.EL) /\ IsWhole(st.ES) /\ IsWhole(st.EP)
    /\ IsWhole(st.S) /\ IsWhole(st.P)

SameCounts(a, b) ==
    /\ a.EL = b.EL /\ a.ES = b.ES /\ a.EP = b.EP /\ a.S = b.S /\ a.P = b.P

\* C1: a tick called with NEL, NES, NEP equal to the E, ES, EP of a state
\* of non-negative integer counts returns a state with the same E+ES+EP
\* and the same S+P+ES+EP, for all rates, dt and draws; this holds for
\* every tick of a run, so both totals are constant along it.
C1_MassConservation ==
    ticks > 0 =>
        /\ EnzymeTotal(state) = EnzymeTotal(prev)
        /\ SubstrateTotal(state) = SubstrateTotal(prev)

\* a second tick in which the E block bound substrate while a complex
\* dissociated into E + S and the counts changed
C1_Witness ==
    /\ ticks > 1
    /\ params.NEL = prev.EL /\ params.NES = prev.ES /\ params.NEP = prev.EP
    /\ blk.nEs > 0
    /\ blk.toEL + blk.toE > 0
    /\ ~SameCounts(state, prev)

\* C3: with all six rate constants 0 a tick returns E, ES, EP, S, P equal
\* to their input values and the time equal to the input time plus dt.
C3_ZeroRateIdempotence ==
    (/\ ticks > 0
     /\ params.k1 = 0 /\ params.kMinus3 = 0 /\ params.kMinus1 = 0
     /\ params.k2 = 0 /\ params.kMinus2 = 0 /\ params.k3 = 0)
        => /\ SameCounts(state, prev)
           /\ state.TIEMPO.kind = "finite"
           /\ state.TIEMPO.val = prev.TIEMPO.val
                  + (IF params.dt.kind = "undefined" THEN 1 ELSE params.dt.val)

\* a zero-rate tick with dt = 3 on a state that holds every species
C3_Witness ==
    /\ ticks > 0
    /\ params.k1 = 0 /\ params.kMinus3 = 0 /\ params.kMinus1 = 0
    /\ params.k2 = 0 /\ params.kMinus2 = 0 /\ params.k3 = 0
    /\ params.dt = Num(3)
    /\ prev.EL > 0 /\ prev.ES > 0 /\ prev.S > 0 /\ prev.P > 0
    /\ state.TIEMPO = Num(prev.TIEMPO.val + 3)

\* C9: in the E block the applied counts satisfy ES_formed <= sAvail,
\* EP_formed <= pAvail, ES_formed + EP_formed <= n_react and
\* ES_formed + EP_formed = min(n_react, sAvail + pAvail), with
\* sAvail = floor(S) and pAvail = floor(P), for every n_react and split.
C9_CapWithReassignment ==
    ticks > 0 =>
        /\ Whole(blk.sAvail) = prev.S /\ Whole(blk.pAvail) = prev.P
        /\ blk.nEsRaw + blk.nEpRaw = blk.nReact
        /\ blk.nEs <= blk.sAvail
        /\ blk.nEp <= blk.pAvail
        /\ blk.nEs + blk.nEp <= blk.nReact
        /\ blk.nEs + blk.nEp = Min(blk.nReact, blk.sAvail + blk.pAvail)

\* a tick whose ES demand exceeds S and whose shortfall goes to EP
C9_Witness ==
    /\ ticks > 0
    /\ blk.nEsRaw > blk.sAvail
    /\ blk.nEp > blk.nEpRaw
    /\ blk.nEs + blk.nEp = blk.nReact

\* C10: from E = 100, S = 5, P = 0, ES = 0, EP = 0 with pTot = 1 in the
\* E block and k-3 = 0, the E block forms exactly 5 ES and 0 EP, takes
\* exactly 5 from the free E and leaves S = 0.
C10_OverflowExample ==
    (/\ ticks > 0
     /\ prev.EL = Whole(100) /\ prev.S = Whole(5) /\ prev.P = 0
     /\ prev.ES = 0 /\ prev.EP = 0
     /\ params.kMinus3 = 0
     /\ EBlockPTot(prev, params) = PScale)
        => /\ blk.nEs = 5
           /\ blk.nEp = 0
           /\ blk.elAfterE = Whole(100 - 5)
           /\ blk.sAfterE = 0

\* the example's tick with k1 = 1000
C10_Witness ==
    /\ ticks = 1
    /\ SameCounts(prev, OverflowExample)
    /\ params.k1 = 1000 * RateUnit /\ params.kMinus3 = 0
    /\ blk.nReact = 100 /\ blk.nEsRaw = 100
    /\ blk.nEs = 5
    /\ state.ES = Whole(5) /\ state.EL = Whole(95) /\ state.S = 0

\* C11: snapshot-then-apply.  The ES block works on the ES count taken before
\* the step and the EP block on the EP count taken before the step: the
\* number of ES reacting in the ES block never exceeds the pre-step ES count
\* and the number of EP reacting in the EP block never exceeds the pre-step
\* EP count, however many ES or EP the earlier blocks of the same step formed.
C11_SnapshotThenApply ==
    ticks > 0 =>
        /\ blk.nes = MathRoundCount(prev.ES) /\ blk.nep = MathRoundCount(prev.EP)
        /\ blk.esReact <= blk.nes /\ Whole(blk.esReact) <= prev.ES
        /\ blk.epReact <= blk.nep /\ Whole(blk.epReact) <= prev.EP

\* a step whose E block formed both ES and EP out of nothing held before,
\* with nonzero ES and EP hazards, and neither complex block reacted
C11_Witness ==
    /\ ticks > 0 /\ prev.ES = 0 /\ prev.EP = 0
    /\ blk.nEs > 0 /\ blk.nEp > 0
    /\ params.kMinus1 + params.k2 > 0 /\ params.kMinus2 + params.k3 > 0
    /\ blk.esReact = 0 /\ blk.epReact = 0

\* C16: a block whose combined hazard is zero has no reaction in that step:
\* the E block when k1*S + k-3*P = 0, the ES block when k-1 + k2 = 0, the EP
\* block when k-2 + k3 = 0, whatever the populations and the draws.
C16_ZeroHazardNoReaction ==
    ticks > 0 =>
        /\ (params.k1 * prev.S + params.kMinus3 * prev.P = 0 =>
                /\ blk.nReact = 0 /\ blk.nEs = 0 /\ blk.nEp = 0
                /\ blk.elAfterE = prev.EL /\ blk.sAfterE = prev.S
                /\ blk.pAfterE = prev.P)
        /\ (params.kMinus1 + params.k2 = 0 =>
                blk.esReact = 0 /\ blk.toEL = 0 /\ blk.toEP = 0)
        /\ (params.kMinus2 + params.k3 = 0 =>
                blk.epReact = 0 /\ blk.toES = 0 /\ blk.toE = 0)

\* a step on free enzyme with a nonzero binding rate but no substrate and no
\* product, and on an ES or EP held with both its rates zero
C16_Witness ==
    /\ ticks > 0 /\ prev.EL > 0 /\ params.k1 > 0 /\ prev.S = 0 /\ prev.P = 0
    /\ blk.nel > 0 /\ blk.nReact = 0
    /\ \/ prev.ES > 0 /\ params.kMinus1 + params.k2 = 0 /\ blk.esReact = 0
       \/ prev.EP > 0 /\ params.kMinus2 + params.k3 = 0 /\ blk.epReact = 0

\* C19 as stated: a channel of the E block whose rate constant is 0 never
\* fires: with k-3 = 0 no EP is formed from free enzyme in the step, and with
\* k1 = 0 no ES is formed from free enzyme, for every state (overflow
\* reassignment included) and every draw.
C19_ZeroRateChannelNeverFires ==
    ticks > 0 =>
        /\ (params.kMinus3 = 0 => blk.nEp = 0)
        /\ (params.k1 = 0 => blk.nEs = 0)

\* C19 amended: a channel of the E block whose rate constant is 0 gets no
\* candidates from the split, and what it forms is exactly the overflow of the
\* other channel reassigned to it: with k-3 = 0 the EP formed is
\* min(max(0, ES candidates - floor(S)), floor(P)), which is 0 when the ES
\* demand does not exceed S or no P is held; symmetrically with k1 = 0 the ES
\* formed is min(max(0, EP candidates - floor(P)), floor(S)).
C19_ZeroRateChannelOnlyReassigned ==
    ticks > 0 =>
        /\ (params.kMinus3 = 0 =>
                /\ blk.nEpRaw = 0
                /\ blk.nEp = Min(Max(0, blk.nEsRaw - blk.sAvail), blk.pAvail)
                /\ (blk.nEsRaw <= blk.sAvail \/ prev.P = 0 => blk.nEp = 0))
        /\ (params.k1 = 0 =>
                /\ blk.nEsRaw = 0
                /\ blk.nEs = Min(Max(0, blk.nEpRaw - blk.pAvail), blk.sAvail)
                /\ (blk.nEpRaw <= blk.pAvail \/ prev.S = 0 => blk.nEs = 0))

\* a step with k-3 = 0 whose ES demand exceeded S while P was held, so that
\* EP formed from free enzyme
C19_Witness ==
    /\ ticks > 0 /\ params.kMinus3 = 0 /\ params.k1 > 0
    /\ blk.nEsRaw > blk.sAvail /\ blk.pAvail > 0
    /\ blk.nEpRaw = 0 /\ blk.nEp > 0

----------------------------------------------------------------------------
(* Specification SpecDirect: simulateTick called once on arbitrary inputs, *)
(* negative counts and snapshot counts foreign to the state included       *)

RawCounts == {Whole(-1), 0, Whole(2)}

RawSnapshots == {Whole(-1), Whole(3)}

\* all six rate constants equal
UniformVectors ==
    {[k1 |-> r, kMinus3 |-> r, kMinus1 |-> r, k2 |-> r, kMinus2 |-> r, k3 |-> r,
      dt |-> d] : r \in RateSet, d \in DtSet}

InitDirect ==
    /\ bin = IdleBin
    /\ state \in {createStateFromNumbers(e, es, ep, s, p, Num(0)) :
                     e \in RawCounts, es \in RawCounts, ep \in RawCounts,
                     s \in RawCounts, p \in RawCounts}
    /\ \E nel \in RawSnapshots, nes \in RawSnapshots, nep \in RawSnapshots,
          rv \in UniformVectors :
          params = TickParams(nel, nes, nep, rv)
    /\ prev = state
    /\ blk = NoBlocks
    /\ ticks = 0
    /\ drv = IdleDrv
    /\ IdleApp

\* simulateTick(state, params) with the params as given
DirectTick ==
    /\ ticks = 0
    /\ \E rnd \in TickDraws(state, params) :
          LET run == TickRun(state, params, rnd)
          IN  /\ state' = run.out
              /\ blk' = TickTrace(run)
    /\ prev' = state
    /\ ticks' = 1
    /\ UNCHANGED <<bin, params, drv, appVars>>

NextDirect == DirectTick

SpecDirect == InitDirect /\ [][NextDirect]_vars

\* C2: for all inputs, negative species counts and snapshot counts that
\* differ from the state included, each of E, ES, EP, S, P returned by a
\* tick is >= 0, for every outcome of the draws.
C2_NonNegativeOutput ==
    ticks > 0 =>
        /\ state.EL >= 0 /\ state.ES >= 0 /\ state.EP >= 0
        /\ state.S >= 0 /\ state.P >= 0

\* a tick on a negative E count whose snapshot NEL exceeds the state's E:
\* more enzyme reacts than the state holds and the final clamp acts
C2_Witness ==
    /\ ticks > 0
    /\ prev.EL < 0
    /\ params.NEL > 0
    /\ blk.nEs + blk.nEp > 0
    /\ blk.clampChanged
    /\ state.EL = 0

NonNegativeCounts(st) ==
    /\ st.EL >= 0 /\ st.ES >= 0 /\ st.EP >= 0 /\ st.S >= 0 /\ st.P >= 0

\* C20: the post-step clamp is purely defensive.  For every non-negative
\* integer state and every snapshot triple NEL, NES, NEP, values larger than
\* the state's E, ES, EP included, no block removes more than the state
\* holds: the final clamp changes no value, and E+ES+EP and S+P+ES+EP of the
\* returned state are those of the input state.
C20_ClampPurelyDefensive ==
    (ticks > 0 /\ NonNegativeCounts(prev) /\ WholeCounts(prev)) =>
        /\ ~blk.clampChanged
        /\ EnzymeTotal(state) = EnzymeTotal(prev)
        /\ SubstrateTotal(state) = SubstrateTotal(prev)

----------------------------------------------------------------------------
(* The step drivers: src/lib/wasm-sim.ts over the WebAssembly module       *)

\* toNumericState: a SimulationState as plain numbers
toNumericState(st) ==
    [E |-> st.EL, ES |-> st.ES, EP |-> st.EP, S |-> st.S, P |-> st.P,
     TIEMPO |-> st.TIEMPO.val]

\* paramsToNumbers: the rate constants and dt (1 when absent) as numbers
paramsToNumbers(p) ==
    [k1 |-> p.k1, kMinus3 |-> p.kMinus3, kMinus1 |-> p.kMinus1, k2 |-> p.k2,
     kMinus2 |-> p.kMinus2, k3 |-> p.k3,
     dt |-> IF p.dt.kind = "undefined" THEN 1 ELSE p.dt.val]

\* the pre-step treatment of a count: rounded to the nearest integer and
\* clamped at zero
RoundClamp(c) == Whole(Max(0, MathRoundCount(c)))

\* the params of the kernel invocation the module makes on a numeric state:
\* the snapshot counts are the state's own rounded, clamped E, ES, EP
KernelParams(cur, pn) ==
    [NEL |-> RoundClamp(cur.E), NES |-> RoundClamp(cur.ES),
     NEP |-> RoundClamp(cur.EP),
     k1 |-> pn.k1, kMinus3 |-> pn.kMinus3, kMinus1 |-> pn.kMinus1, k2 |-> pn.k2,
     kMinus2 |-> pn.kMinus2, k3 |-> pn.k3, dt |-> Num(pn.dt)]

KernelState(cur) ==
    createStateFromNumbers(RoundClamp(cur.E), RoundClamp(cur.ES),
                           RoundClamp(cur.EP), RoundClamp(cur.S),
                           RoundClamp(cur.P), Num(cur.TIEMPO))

\* one kernel step of the module on a numeric state
KernelStep(cur, pn, rnd) ==
    toNumericState(simulateTick(KernelState(cur), KernelParams(cur, pn), rnd))

KernelUsed(cur, pn, rnd) ==
    TickRun(KernelState(cur), KernelParams(cur, pn), rnd).used

\* the six values of a state on the wire: E, ES, EP, S, P, time
Flat(cur) == <<cur.E, cur.ES, cur.EP, cur.S, cur.P, cur.TIEMPO>>

\* simulate_steps_final: the kernel applied steps times, tape[i] being the
\* draws of the i-th step; the final state on the wire, the number of
\* kernel invocations and of uniforms consumed
RECURSIVE simulate_steps_final(_, _, _, _)
simulate_steps_final(cur, pn, steps, tape) ==
    IF steps <= 0 THEN [flat |-> Flat(cur), calls |-> 0, used |-> 0]
    ELSE LET r == simulate_steps_final(KernelStep(cur, pn, Head(tape)), pn,
                                       steps - 1, Tail(tape))
         IN  [flat |-> r.flat, calls |-> r.calls + 1,
              used |-> r.used + KernelUsed(cur, pn, Head(tape))]

\* simulate_steps_series: the same loop, every resulting state appended to
\* the flat output in step order
RECURSIVE simulate_steps_series(_, _, _, _)
simulate_steps_series(cur, pn, steps, tape) ==
    IF steps <= 0 THEN [flat |-> <<>>, calls |-> 0, used |-> 0]
    ELSE LET nxt == KernelStep(cur, pn, Head(tape))
             r == simulate_steps_series(nxt, pn, steps - 1, Tail(tape))
         IN  [flat |-> Flat(nxt) \o r.flat, calls |-> r.calls + 1,
              used |-> r.used + KernelUsed(cur, pn, Head(tape))]

\* a step count of at least one
NormalizeStepsAtLeastOne(steps) == Max(1, steps)

\* Math.max(0, Math.floor(steps))
NormalizeSteps(steps) == Max(0, steps)

\* the state at offset i of a flat array
ParseAt(flat, i) ==
    [E |-> flat[i + 1], ES |-> flat[i + 2], EP |-> flat[i + 3], S |-> flat[i + 4],
     P |-> flat[i + 5], TIEMPO |-> flat[i + 6]]

\* wasmSimulateStepsFinal that reads ES and EP from each other's slot
wasmSimulateStepsFinalSwapped(ready, current, pn, steps, tape) ==
    IF ~ready THEN [NoResult EXCEPT !.status = "null"]
    ELSE LET r == simulate_steps_final(current, pn, NormalizeSteps(steps), tape)
         IN  [status |-> "value",
              st |-> [ParseAt(r.flat, 0) EXCEPT !.ES = r.flat[3], !.EP = r.flat[2]],
              seq |-> <<>>, calls |-> r.calls, used |-> r.used]

\* wasmSimulateStepsFinal: null when the module is not ready, else the
\* state read from the six values the module returns
wasmSimulateStepsFinal(ready, current, pn, steps, tape) ==
    IF ~ready THEN [NoResult EXCEPT !.status = "null"]
    ELSE LET r == simulate_steps_final(current, pn, NormalizeSteps(steps), tape)
         IN  [status |-> "value", st |-> ParseAt(r.flat, 0), seq |-> <<>>,
              calls |-> r.calls, used |-> r.used]

\* wasmSimulateStepsSeries whose parsing loop starts at the second state
wasmSimulateStepsSeriesSkipFirst(ready, current, pn, steps, tape) ==
    IF ~ready THEN [NoResult EXCEPT !.status = "null"]
    ELSE LET r == simulate_steps_series(current, pn, NormalizeSteps(steps), tape)
         IN  [status |-> "value", st |-> <<>>,
              seq |-> [j \in 1 .. ((Len(r.flat) - 1) \div 6) |->
                          ParseAt(r.flat, 6 * j)],
              calls |-> r.calls, used |-> r.used]

\* wasmSimulateStepsSeries: null when the module is not ready, else the
\* flat array cut into states of six values:
\* for (i = 0; i < flat.length; i += 6) out.push(...)
wasmSimulateStepsSeries(ready, current, pn, steps, tape) ==
    IF ~ready THEN [NoResult EXCEPT !.status = "null"]
    ELSE LET r == simulate_steps_series(current, pn, NormalizeSteps(steps), tape)
         IN  [status |-> "value", st |-> <<>>,
              seq |-> [j \in 1 .. ((Len(r.flat) + 5) \div 6) |->
                          ParseAt(r.flat, 6 * (j - 1))],
              calls |-> r.calls, used |-> r.used]

\* every tape the random source can produce over n kernel steps from cur
RECURSIVE Tapes(_, _, _)
Tapes(cur, pn, n) ==
    IF n <= 0 THEN {<<>>}
    ELSE UNION {{<<rnd>> \o t : t \in Tapes(KernelStep(cur, pn, rnd), pn, n - 1)} :
                   rnd \in TickDraws(KernelState(cur), KernelParams(cur, pn))}

----------------------------------------------------------------------------
(* Specification SpecDriver: both entry points called on the same input,   *)
(* the second call replaying the draws of the first                        *)

\* largest step count of a driver call
MaxSteps == 2

StepCounts == (-2) .. MaxSteps

\* the inputs of the driver calls: no product and no EP at the start
DriverStates == {st \in InitStates : st.EP = 0 /\ st.P = 0}

InitDriver ==
    /\ bin = IdleBin
    /\ state = ZeroState
    /\ params = ZeroParams
    /\ prev = ZeroState
    /\ blk = NoBlocks
    /\ ticks = 0
    /\ \E st \in DriverStates, rv \in UniformVectors, n \in StepCounts,
          rdy \in BOOLEAN :
          drv = [ready |-> rdy, cur |-> toNumericState(st),
                 par |-> paramsToNumbers(rv), steps |-> n, taped |-> FALSE,
                 tape |-> <<>>, final |-> NoResult, series |-> NoResult]
    /\ IdleApp

\* the draws of a call: those of the recorded tape, or fresh ones
CallTapes ==
    IF drv.taped THEN {drv.tape}
    ELSE IF ~drv.ready THEN {<<>>}
    ELSE Tapes(drv.cur, drv.par, NormalizeSteps(drv.steps))

RunFinal ==
    /\ drv.final.status = "none"
    /\ \E tape \in CallTapes :
          drv' = [drv EXCEPT !.taped = TRUE, !.tape = tape,
                             !.final = wasmSimulateStepsFinal(
                                 drv.ready, drv.cur, drv.par, drv.steps, tape)]
    /\ UNCHANGED <<bin, state, params, prev, blk, ticks, appVars>>

RunSeries ==
    /\ drv.series.status = "none"
    /\ \E tape \in CallTapes :
          drv' = [drv EXCEPT !.taped = TRUE, !.tape = tape,
                             !.series = wasmSimulateStepsSeries(
                                 drv.ready, drv.cur, drv.par, drv.steps, tape)]
    /\ UNCHANGED <<bin, state, params, prev, blk, ticks, appVars>>

NextDriver == RunFinal \/ RunSeries

SpecDriver == InitDriver /\ [][NextDriver]_vars

\* the state after the first i kernel steps of the recorded tape
RECURSIVE StateAfter(_)
StateAfter(i) ==
    IF i = 0 THEN drv.cur
    ELSE KernelStep(StateAfter(i - 1), drv.par, drv.tape[i])

FinalDone == drv.final.status = "value"

SeriesDone == drv.series.status = "value"

C7_SeriesHasEveryStep ==
    (SeriesDone /\ drv.steps >= 0) =>
        /\ Len(drv.series.seq) = drv.steps
        /\ \A i \in 1 .. Len(drv.series.seq) :
              /\ drv.series.seq[i] = StateAfter(i)
              /\ drv.series.seq[i].TIEMPO = drv.cur.TIEMPO + i * drv.par.dt

C7_Witness ==
    /\ SeriesDone
    /\ drv.steps = 2
    /\ drv.par.dt = 3
    /\ Len(drv.series.seq) = 2
    /\ drv.series.seq[1] = StateAfter(1)
    /\ drv.series.seq[1].E # drv.cur.E
    /\ drv.series.seq[2].E # drv.series.seq[1].E
    /\ drv.series.seq[2].TIEMPO = drv.cur.TIEMPO + 6

\* C8: a step count below 0 is treated as 0: wasmSimulateStepsFinal returns
\* the input state unchanged in species and time, wasmSimulateStepsSeries
\* returns an empty sequence, and neither executes a kernel step nor
\* consumes a random draw.
C8_NegativeStepsAreZero ==
    /\ (FinalDone /\ drv.steps < 0) =>
          /\ drv.final.st = drv.cur
          /\ drv.final.calls = 0
          /\ drv.final.used = 0
    /\ (SeriesDone /\ drv.steps < 0) =>
          /\ drv.series.seq = <<>>
          /\ drv.series.calls = 0
          /\ drv.series.used = 0

C8_Witness ==
    /\ FinalDone
    /\ SeriesDone
    /\ drv.steps < 0
    /\ drv.cur.E > 0
    /\ drv.cur.S > 0
    /\ drv.par.k1 > 0
    /\ drv.final.st = drv.cur
    /\ drv.series.seq = <<>>
    /\ drv.final.used = 0

----------------------------------------------------------------------------
(* Specification SpecDt: simulateTick called with every kind of params.dt  *)

NotANumber == [kind |-> "nan", val |-> 0]

Infinity == [kind |-> "infinity", val |-> 0]

\* the dt of a call: absent, zero, negative, positive, NaN, infinite
DtValues == {Undefined, Num(0), Num(-2), Num(3), NotANumber, Infinity}

\* a dt the step does not take as given: absent, non-positive or non-finite
InvalidDt(dt) == dt.kind # "finite" \/ dt.val <= 0

DtRateVectors ==
    {rv \in RateVectors : /\ rv.dt = Undefined /\ rv.kMinus3 = 0
                          /\ rv.kMinus1 = 0 /\ rv.kMinus2 = 0}

InitDt ==
    /\ bin = IdleBin
    /\ state \in InitStates
    /\ \E rv \in DtRateVectors :
          params = TickParams(state.EL, state.ES, state.EP, rv)
    /\ prev = state
    /\ blk = NoBlocks
    /\ ticks = 0
    /\ drv = IdleDrv
    /\ IdleApp

\* one call of simulateTick with the snapshot of the state and a dt of the
\* caller's choice
CallWithDt ==
    /\ ticks < MaxTicks
    /\ \E dt \in DtValues :
          LET par == [params EXCEPT !.NEL = Whole(MathRoundCount(state.EL)),
                                    !.NES = Whole(MathRoundCount(state.ES)),
                                    !.NEP = Whole(MathRoundCount(state.EP)),
                                    !.dt = dt]
          IN  \E rnd \in TickDraws(state, par) :
                 LET run == TickRun(state, par, rnd)
                 IN  /\ state' = run.out
                     /\ blk' = TickTrace(run)
                     /\ params' = par
    /\ prev' = state
    /\ ticks' = ticks + 1
    /\ UNCHANGED <<bin, drv, appVars>>

NextDt == CallWithDt

SpecDt == InitDt /\ [][NextDt]_vars

\* C12: a step whose dt is unspecified, non-positive or non-finite behaves as
\* a step with dt = 1: its probabilities are computed with dt = 1 and the time
\* it returns is the input time plus 1, so the elapsed time never decreases.
C12_InvalidDtActsAsOne ==
    (ticks > 0 /\ InvalidDt(params.dt)) =>
        /\ StepDtNum(params) = 1
        /\ state.TIEMPO = DecimalPlus(prev.TIEMPO, Num(1))
        /\ (prev.TIEMPO.kind = "finite" =>
                /\ state.TIEMPO.kind = "finite"
                /\ state.TIEMPO.val >= prev.TIEMPO.val)

----------------------------------------------------------------------------
(* Specification SpecFraction: the step loop started on fractional counts  *)

\* the states with non-negative counts that are multiples of 1 / CountScale
FractionStates ==
    {st \in {createStateFromNumbers(e, es, ep, s, p, Num(0)) :
                e \in 0 .. Whole(MaxEnzyme), es \in 0 .. Whole(MaxEnzyme),
                ep \in 0 .. Whole(MaxEnzyme), s \in 0 .. Whole(MaxSubstrate),
                p \in 0 .. Whole(MaxSubstrate)} :
        /\ st.EL + st.ES + st.EP <= Whole(MaxEnzyme)
        /\ st.S + st.P <= Whole(MaxSubstrate)}

InitFraction ==
    /\ bin = IdleBin
    /\ state \in FractionStates
    /\ \E rv \in DtRateVectors :
          params = TickParams(Whole(MathRoundCount(state.EL)),
                              Whole(MathRoundCount(state.ES)),
                              Whole(MathRoundCount(state.EP)), rv)
    /\ prev = state
    /\ blk = NoBlocks
    /\ ticks = 0
    /\ drv = IdleDrv
    /\ IdleApp

SpecFraction == InitFraction /\ [][Next]_vars

\* C17: a step rounds all five input counts to the nearest integer and clamps
\* them at zero before any block, so for every non-negative, possibly
\* fractional input the five output counts are integers, and the caps
\* floor(S) and floor(P) of the E block equal the S and P the step holds.
C17_RoundedBeforeBlocks ==
    ticks > 0 =>
        /\ WholeCounts(state)
        /\ Whole(blk.sAvail) = RoundClamp(prev.S)
        /\ Whole(blk.pAvail) = RoundClamp(prev.P)
        /\ blk.sAfterE = RoundClamp(prev.S) - Whole(blk.nEs)
        /\ blk.pAfterE = RoundClamp(prev.P) - Whole(blk.nEp)

----------------------------------------------------------------------------
(* Specification SpecScale: the first step of the scaling scenario         *)

\* the scaling scenario's rates: k1 = k-3 = 0.01, the others 0.1, dt = 1
ScenarioRates ==
    [k1 |-> RateUnit \div 100, kMinus3 |-> RateUnit \div 100,
     kMinus1 |-> RateUnit \div 10, k2 |-> RateUnit \div 10,
     kMinus2 |-> RateUnit \div 10, k3 |-> RateUnit \div 10, dt |-> Num(1)]

\* the scenario's state {E: 100, S: 50, P: 0, ES: 0, EP: 0} scaled by f
ScenarioState(f) ==
    createStateFromNumbers(Whole(100 * f), 0, 0, Whole(50 * f), 0, Num(0))

\* the factors the scenario is scaled by; 1 and 1000 are the two it names
ScaleFactors == (1 .. 25) \cup {100, 1000}

InitScale ==
    /\ bin = IdleBin
    /\ \E f \in ScaleFactors : state = ScenarioState(f)
    /\ params = TickParams(state.EL, state.ES, state.EP, ScenarioRates)
    /\ prev = state
    /\ blk = NoBlocks
    /\ ticks = 0
    /\ drv = IdleDrv
    /\ IdleApp

\* the first step of a run of the scenario
FirstScenarioTick ==
    /\ ticks = 0
    /\ \E rnd \in TickDraws(state, params) :
          LET run == TickRun(state, params, rnd)
          IN  /\ state' = run.out
              /\ blk' = TickTrace(run)
    /\ prev' = state
    /\ ticks' = ticks + 1
    /\ UNCHANGED <<bin, params, drv, appVars>>

NextScale == FirstScenarioTick

SpecScale == InitScale /\ [][NextScale]_vars

\* C18: scale invariance.  With the same rate constants the scenario's state
\* and the state scaled by 1000 give trajectories that, normalised, track
\* each other: the probability 1 - exp(-hazard * dt) of the E block does not
\* saturate as the populations grow, so in a step of the scaled state, as in
\* a step of the unscaled one, the free enzyme does not react with certainty.
C18_NoSaturationAtScale ==
    ticks > 0 =>
        EBlockPTot(prev, params) < PScale

----------------------------------------------------------------------------
(* The simulation engine (src/lib/simulation-engine.ts), the browser state *)
(* it lives in, the store (state/useAppStore.ts) and the component that    *)
(* joins them (components/simulation/SimulationRunner.tsx).                *)
(*                                                                         *)
(* The operators below take and return a record w of the five variables    *)
(* eng, host, store, runner, obs.                                          *)
(*   eng     the fields of the SimulationEngine object                     *)
(*   host    the pending timers of window.setTimeout and the delay of the  *)
(*           last one set, the state of the WebAssembly module of          *)
(*           wasm-sim.ts, and the executeStep call suspended at its await  *)
(*   store   the simulation slice of the store                             *)
(*   runner  the dependency values the effects of SimulationRunner last    *)
(*           ran with                                                      *)
(*   obs     what the callback was last given and the last reset() or      *)
(*           updateState() not yet followed by an emission, for inspection *)
(***************************************************************************)

\* null, for a field of type number | null
Null == [kind |-> "null", val |-> 0]

\* resolution of a speed: speed = V / SpeedUnit
SpeedUnit == 10 * 10

\* Math.ceil(a / b) for a >= 0, b > 0
MathCeilDiv(a, b) == (a + b - 1) \div b

World == [eng |-> eng, host |-> host, store |-> store, runner |-> runner,
          obs |-> obs]

Commit(w) ==
    /\ eng' = w.eng /\ host' = w.host /\ store' = w.store
    /\ runner' = w.runner /\ obs' = w.obs

NoFlight == [active |-> FALSE, batchSize |-> 0,
             currentNum |-> toNumericState(ZeroState),
             paramsNum |-> paramsToNumbers(ZeroParams)]

\* the concentrations of a numeric state
Concentrations(ns) == [E |-> ns.E, ES |-> ns.ES, EP |-> ns.EP, S |-> ns.S, P |-> ns.P]

\* a SimulationStep: { time, concentrations }
SimulationStep(ns) == [time |-> ns.TIEMPO, concentrations |-> Concentrations(ns)]

\* initWasm(): the first call starts loading the module; later calls return
\* the cached promise
initWasm(w) ==
    IF w.host.wasm = "idle" THEN [w EXCEPT !.host.wasm = "loading"] ELSE w

\* isWasmReady()
isWasmReady(w) == w.host.wasm = "ready"

\* this.timerId = window.setTimeout(() => this.executeStep(), ...)
SetTimer(w, delay) ==
    [w EXCEPT !.host.timers = @ \cup {w.host.nextId},
              !.host.nextId = @ + 1,
              !.host.delay = delay,
              !.eng.timerId = Num(w.host.nextId)]

\* clearTimeout(this.timerId); this.timerId = null
ClearTimer(w) ==
    IF w.eng.timerId = Null THEN w
    ELSE [w EXCEPT !.host.timers = @ \ {w.eng.timerId.val}, !.eng.timerId = Null]

\* setSpeed with no clamp
setSpeedAsGiven(w, speed) == [w EXCEPT !.eng.speed = speed]

\* setSpeed: clamp to 0.01x - 10,000x
setSpeed(w, speed) ==
    [w EXCEPT !.eng.speed = Max(1, Min(10000 * SpeedUnit, speed))]

updateParams(w, p) == [w EXCEPT !.eng.params = p]

\* concentrations and a time as the numeric state executeStep builds from
\* them
NumericStep(c, t) ==
    [E |-> c.E, ES |-> c.ES, EP |-> c.EP, S |-> c.S, P |-> c.P, TIEMPO |-> t]

\* updateState that sets the concentrations and leaves the time
updateStateKeepsTime(w, concentrations, time) ==
    [w EXCEPT !.eng.currentState = concentrations,
              !.obs.set = [kind |-> "update",
                           num |-> NumericStep(concentrations, time)]]

\* updateState: "this.currentState = { ...concentrations };
\* this.currentTime = time"
updateState(w, concentrations, time) ==
    [w EXCEPT !.eng.currentState = concentrations, !.eng.currentTime = time,
              !.obs.set = [kind |-> "update",
                           num |-> NumericStep(concentrations, time)]]

\* a delay in milliseconds, as the fraction num / den
Millis(num, den) == [num |-> num, den |-> den]

\* TARGET_INTERVAL >= BATCH_THRESHOLD, with TARGET_INTERVAL = BASE_INTERVAL /
\* speed = 100 / speed: the quotient is at least 10 exactly when the speed
\* is at most 10
LowSpeed(speed) == 100 * SpeedUnit >= 10 * speed

\* 2^f <= 100 / s
TargetAtLeastPow2(f, s) ==
    IF f >= 0 THEN (2 ^ f) * s <= 100 ELSE s <= 100 * (2 ^ (0 - f))

\* the binary exponent of the double 100 / s, for an integer speed s > 10
TargetExponent(s) ==
    CHOOSE f \in (0 - 8) .. 3 :
        TargetAtLeastPow2(f, s) /\ ~TargetAtLeastPow2(f + 1, s)

\* the binary exponent of the integer n >= 1
IntegerExponent(n) == CHOOSE e \in 0 .. 30 : 2 ^ e <= n /\ n < 2 ^ (e + 1)

\* (r * 2^k) mod s for r < s <= 10,000 and k < 64, sixteen doublings at a
\* time so that no product exceeds 32 bits
ShiftedRemainder(r, s, k) ==
    LET m == (2 ^ 16) % s
        r1 == IF k >= 16 THEN (r * m) % s ELSE r
        r2 == IF k >= 32 THEN (r1 * m) % s ELSE r1
        r3 == IF k >= 48 THEN (r2 * m) % s ELSE r2
    IN  (r3 * ((2 ^ (k % 16)) % s)) % s

\* for an integer speed s = 5 n: whether the double 20 / (100 / s) is above
\* n.  The double 100 / s is the quotient rounded to 53 significant bits,
\* what the division of 100 * 2^k by s leaves being r; rounded down (0 < 2 r
\* < s) it makes the second quotient exceed n by n r / (100 * 2^k - r),
\* which rounds to a double above n when it is more than half the spacing
\* 2^(e - 52) of the doubles at n
QuotientAboveInteger(s, n, f, e, r) ==
    /\ r > 0 /\ 2 * r < s
    /\ IF e - f - 1 >= 0 THEN n * r >= 100 * (2 ^ (e - f - 1))
       ELSE n * r * (2 ^ (f + 1 - e)) >= 100

\* idealBatchSize = Math.ceil(UPDATE_INTERVAL / TARGET_INTERVAL) =
\* Math.ceil(20 / (100 / speed)) in doubles: the ceiling of speed / 5, and
\* one more at the integer speeds 5 n for which the double quotient is
\* above n
idealBatchSize(speed) ==
    IF speed % (5 * SpeedUnit) # 0
    THEN MathCeilDiv(20 * speed, 100 * SpeedUnit)
    ELSE IF QuotientAboveInteger(
                speed \div SpeedUnit, speed \div (5 * SpeedUnit),
                TargetExponent(speed \div SpeedUnit),
                IntegerExponent(speed \div (5 * SpeedUnit)),
                ShiftedRemainder(100 % (speed \div SpeedUnit),
                                 speed \div SpeedUnit,
                                 52 - TargetExponent(speed \div SpeedUnit)))
    THEN speed \div (5 * SpeedUnit) + 1
    ELSE speed \div (5 * SpeedUnit)

\* calculationsPerBatch of scheduleNextStep with no single-step first tick
calculationsPerBatchAlways(speed, firstTickDone) ==
    IF LowSpeed(speed) THEN 1 ELSE Min(idealBatchSize(speed), 100)

\* calculationsPerBatch of scheduleNextStep: 1 while TARGET_INTERVAL is at
\* least BATCH_THRESHOLD = 10, otherwise min(idealBatchSize,
\* MAX_BATCH_SIZE); 1 for the first tick
calculationsPerBatch(speed, firstTickDone) ==
    IF ~firstTickDone THEN 1
    ELSE IF LowSpeed(speed) THEN 1
    ELSE Min(idealBatchSize(speed), 100)

\* actualInterval of scheduleNextStep: TARGET_INTERVAL at low speeds and
\* UPDATE_INTERVAL = 20 at high ones; min(TARGET_INTERVAL, BATCH_THRESHOLD)
\* for the first tick
actualInterval(speed, firstTickDone) ==
    IF ~firstTickDone
    THEN IF LowSpeed(speed) THEN Millis(10, 1)
         ELSE Millis(100 * SpeedUnit, speed)
    ELSE IF LowSpeed(speed) THEN Millis(100 * SpeedUnit, speed)
    ELSE Millis(20, 1)

scheduleNextStep(w) ==
    IF ~w.eng.isRunning THEN w
    ELSE SetTimer([w EXCEPT !.eng.currentBatchSize =
                      calculationsPerBatch(w.eng.speed, w.eng.firstTickDone)],
                  actualInterval(w.eng.speed, w.eng.firstTickDone))

\* start() without "if (this.isRunning) return"
startUnguarded(w) ==
    scheduleNextStep(initWasm([w EXCEPT !.eng.isRunning = TRUE,
                                        !.eng.firstTickDone = FALSE]))

\* start(): nothing when running, else isRunning = true, firstTickDone =
\* false, initWasm() and the first timer
start(w) ==
    IF w.eng.isRunning THEN w
    ELSE scheduleNextStep(initWasm([w EXCEPT !.eng.isRunning = TRUE,
                                             !.eng.firstTickDone = FALSE]))

\* stop() that leaves its timer pending
stopLeavesTimer(w) == [w EXCEPT !.eng.isRunning = FALSE]

\* stop(): "this.isRunning = false", then the timer is cleared
stop(w) == ClearTimer([w EXCEPT !.eng.isRunning = FALSE])

reset(w, initialConcentrations) ==
    [updateState(stop(w), initialConcentrations, 0)
        EXCEPT !.obs.set.kind = "reset"]

\* runStep that puts the step in place of the history
runStepAlone(st, step) ==
    [st EXCEPT !.time = step.time, !.concentrations = step.concentrations,
               !.history = <<step>>]

\* runStep of the store
runStep(st, step) ==
    [st EXCEPT !.time = step.time, !.concentrations = step.concentrations,
               !.history = Append(@, step)]

\* step.forEach((singleStep) => runStep(singleStep))
RECURSIVE RunSteps(_, _)
RunSteps(st, steps) ==
    IF steps = <<>> THEN st ELSE RunSteps(runStep(st, Head(steps)), Tail(steps))

\* no reset() or updateState() since the last emission
NoSet == [kind |-> "none", num |-> NoFlight.currentNum]

\* what is kept of an invocation of the callback: the steps it was given,
\* the batch size, state, params and draws they were computed from, the
\* engine's state and time at the invocation, and, for the first invocation
\* after a start(), how many steps it carried and over what time
Emitted(ob, en, flight, steps, tape) ==
    [ob EXCEPT !.calls = @ + 1, !.cycle = "emitted",
               !.last = [from |-> flight.currentNum, pn |-> flight.paramsNum,
                         batchSize |-> flight.batchSize,
                         tape |-> tape, steps |-> steps,
                         now |-> [time |-> en.currentTime,
                                  concentrations |-> en.currentState],
                         set |-> ob.set],
               !.set = NoSet,
               !.awaiting = FALSE,
               !.first = IF ob.awaiting
                         THEN [seen |-> TRUE, len |-> Len(steps),
                               from |-> flight.currentNum.TIEMPO,
                               to |-> steps[Len(steps)].time,
                               dt |-> flight.paramsNum.dt]
                         ELSE @]

\* the callback the runner constructs the engine with
callback(w, steps, tape) ==
    [w EXCEPT !.store = RunSteps(@, steps),
              !.obs = Emitted(@, w.eng, w.host.flight, steps, tape)]

\* the end of a successful cycle: "this.firstTickDone = true;
\* this.scheduleNextStep()"
Completed(w) ==
    scheduleNextStep([w EXCEPT !.eng.firstTickDone = TRUE,
                               !.host.flight = NoFlight])

\* the end of a cycle whose call returned nothing
Rescheduled(w) ==
    scheduleNextStep([w EXCEPT !.host.flight = NoFlight,
                               !.obs.cycle = "retry"])

\* "this.currentState = { E: ..., P: ... }; this.currentTime = ...TIEMPO"
Advanced(w, ns) ==
    [w EXCEPT !.eng.currentState = Concentrations(ns),
              !.eng.currentTime = ns.TIEMPO]

\* executeStep after "await wasmSimulateStepsFinal(...)"
AfterFinal(w, final, tape) ==
    IF final.status = "null" THEN Rescheduled(w)
    ELSE Completed(callback(
             Advanced(w, final.st),
             <<SimulationStep(final.st)>>, tape))

\* series.map((s) => ({ time, concentrations }))
BatchResults(series) == [i \in 1 .. Len(series) |-> SimulationStep(series[i])]

\* executeStep after "await wasmSimulateStepsSeries(...)"
AfterSeries(w, series, tape) ==
    IF series.status = "null" \/ Len(series.seq) = 0 THEN Rescheduled(w)
    ELSE Completed(callback(
             Advanced(w, series.seq[Len(series.seq)]),
             BatchResults(series.seq), tape))

\* the not-ready branch of executeStep with no timer set
RetryLaterDropped(w) == [initWasm(w) EXCEPT !.obs.cycle = "retry"]

\* the not-ready branch of executeStep: "void initWasm(); this.timerId =
\* window.setTimeout(() => this.executeStep(), 10); return"
RetryLater(w) ==
    SetTimer([initWasm(w) EXCEPT !.obs.cycle = "retry"], Millis(10, 1))

\* executeStep up to its await: the batch size, state and params it will
\* compute with are fixed here
Suspended(w) ==
    [w EXCEPT !.host.flight =
        [active |-> TRUE, batchSize |-> w.eng.currentBatchSize,
         currentNum |-> [E |-> w.eng.currentState.E, ES |-> w.eng.currentState.ES,
                         EP |-> w.eng.currentState.EP, S |-> w.eng.currentState.S,
                         P |-> w.eng.currentState.P, TIEMPO |-> w.eng.currentTime],
         paramsNum |-> paramsToNumbers(w.eng.params)]]

\* executeStep from its call by the timer to its first await or return
executeStep(w) ==
    IF ~w.eng.isRunning THEN w
    ELSE IF ~isWasmReady(w) THEN RetryLater(w)
    ELSE Suspended(w)

\* executeStep from its await on: the call made with the values fixed
\* before the await and the draws tape
Resumed(w, tape) ==
    IF w.host.flight.batchSize = 1
    THEN AfterFinal(w, wasmSimulateStepsFinal(
                           isWasmReady(w), w.host.flight.currentNum,
                           w.host.flight.paramsNum, w.host.flight.batchSize,
                           tape), tape)
    ELSE AfterSeries(w, wasmSimulateStepsSeries(
                            isWasmReady(w), w.host.flight.currentNum,
                            w.host.flight.paramsNum, w.host.flight.batchSize,
                            tape), tape)

----------------------------------------------------------------------------
(* The store's simulation slice and the runner's effects                   *)

\* setStatus whose pause points scrubIndex one past the last entry
setStatusPastEnd(st, status) ==
    IF status = "running" /\ st.status = "stopped" /\ st.time = 0
    THEN [st EXCEPT !.status = status,
                    !.history = <<[time |-> st.time,
                                   concentrations |-> st.concentrations]>>,
                    !.scrubIndex = Null]
    ELSE IF status = "running" /\ st.status = "paused"
    THEN [st EXCEPT !.status = status, !.scrubIndex = Null]
    ELSE IF status = "paused" /\ st.status = "running"
    THEN [st EXCEPT !.status = status,
                    !.scrubIndex = IF Len(st.history) > 0
                                   THEN Num(Len(st.history)) ELSE Null]
    ELSE [st EXCEPT !.status = status, !.scrubIndex = Null]

\* setStatus
setStatus(st, status) ==
    IF status = "running" /\ st.status = "stopped" /\ st.time = 0
    THEN [st EXCEPT !.status = status,
                    !.history = <<[time |-> st.time,
                                   concentrations |-> st.concentrations]>>,
                    !.scrubIndex = Null]
    ELSE IF status = "running" /\ st.status = "paused"
    THEN [st EXCEPT !.status = status, !.scrubIndex = Null]
    ELSE IF status = "paused" /\ st.status = "running"
    THEN [st EXCEPT !.status = status,
                    !.scrubIndex = IF Len(st.history) > 0
                                   THEN Num(Len(st.history) - 1) ELSE Null]
    ELSE [st EXCEPT !.status = status, !.scrubIndex = Null]

\* resetSimulation that takes the counts of the initial params of the
\* application, not of the store's
resetSimulationInitialParams(st) ==
    [st EXCEPT !.status = "stopped", !.time = 0,
               !.concentrations = [E |-> Whole(MaxEnzyme), S |-> st.params.NS,
                                   ES |-> st.params.NES, EP |-> st.params.NEP,
                                   P |-> st.params.NP],
               !.history = <<>>]

\* resetSimulation
resetSimulation(st) ==
    [st EXCEPT !.status = "stopped", !.time = 0,
               !.concentrations = [E |-> st.params.NEL, S |-> st.params.NS,
                                   ES |-> st.params.NES, EP |-> st.params.NEP,
                                   P |-> st.params.NP],
               !.history = <<>>]

\* setSpeed of the store
store_setSpeed(st, speed) == [st EXCEPT !.speed = speed]

\* setParams of the store: the given fields replace those of params
setParams(st, p) == [st EXCEPT !.params = p]

\* setScrubIndex
setScrubIndex(st, idx) == [st EXCEPT !.scrubIndex = idx]

\* pinCurrentRun: nothing when the history is empty, else a copy of the
\* history and the params is appended to pinnedRuns with the default label
pinCurrentRun(st) ==
    IF Len(st.history) = 0 THEN st
    ELSE [st EXCEPT !.pinnedRuns =
             Append(@, [label |-> Len(st.pinnedRuns) + 1,
                        history |-> st.history,
                        paramsSnapshot |-> st.params])]

\* isPristine of MainContent
isPristine(st) == st.time = 0 /\ Len(st.history) = 0

\* handleStartStop of MainContent
handleStartStop(st) ==
    IF isPristine(st) THEN setStatus(resetSimulation(st), "running")
    ELSE resetSimulation(setStatus(st, "stopped"))

\* handlePauseResume of MainContent
handlePauseResume(st) ==
    IF st.status = "running" THEN setStatus(st, "paused")
    ELSE IF st.status = "paused" THEN setStatus(st, "running")
    ELSE st

\* the "Simular en grafico principal" button of FitDialog
SimulateOnMainChart(st) == setStatus(resetSimulation(st), "running")

\* the values the effects of the runner depend on
EffectDeps(st) ==
    [status |-> st.status, speed |-> st.speed,
     concentrations |-> st.concentrations, time |-> st.time]

\* "Handle simulation status changes", run when simulation.status changed
StatusEffect(w) ==
    IF w.store.status = w.runner.status THEN w
    ELSE IF w.store.status = "running"
    THEN start(updateState(updateParams(w, w.store.params),
                           w.store.concentrations, w.store.time))
    ELSE stop(w)

\* "Handle speed changes", run when simulation.speed changed
SpeedEffect(w) ==
    IF w.store.speed = w.runner.speed THEN w ELSE setSpeed(w, w.store.speed)

\* "Sync engine state with React state when needed", run when the
\* concentrations, the time or the status changed
SyncEffect(w) ==
    IF /\ w.store.status = "stopped"
       /\ \/ w.store.concentrations # w.runner.concentrations
          \/ w.store.time # w.runner.time
          \/ w.store.status # w.runner.status
    THEN updateState(w, w.store.concentrations, w.store.time)
    ELSE w

\* the effects of SimulationRunner after a render, in declaration order
Effects(w) ==
    [SyncEffect(SpeedEffect(StatusEffect(w)))
        EXCEPT !.runner = EffectDeps(w.store)]

----------------------------------------------------------------------------
(* Specification SpecEngine: one SimulationEngine whose public methods are *)
(* called in any order, between the tasks of the browser's event loop      *)

\* the number of timers set in a run
MaxTimers == 5

\* the speeds set: 1x, with one step per cycle, and 11x, with three
SpeedSet == {SpeedUnit, 11 * SpeedUnit}

\* the params of the store: initial counts, rates that only go forward, dt
AppParams ==
    {[NEL |-> Whole(MaxEnzyme), NES |-> 0, NEP |-> 0,
      NS |-> Whole(MaxSubstrate), NP |-> 0,
      k1 |-> 15 * RateUnit, kMinus3 |-> 0, kMinus1 |-> 0, k2 |-> 15 * RateUnit,
      kMinus2 |-> 0, k3 |-> 15 * RateUnit, dt |-> d] : d \in DtSet}

\* the params the engine is called with: those with dt = 3, for which
\* every block of a step reacts with certainty
EngineParams == {p \in AppParams : p.dt = Num(3)}

\* initialSimulation with the given params
InitialStore(p) ==
    [params |-> p, status |-> "stopped", time |-> 0,
     concentrations |-> [E |-> p.NEL, S |-> p.NS, ES |-> p.NES, EP |-> p.NEP,
                         P |-> p.NP],
     history |-> <<>>, speed |-> SpeedUnit, scrubIndex |-> Null,
     pinnedRuns |-> <<>>]

\* new SimulationEngine(initialConcentrations, params, callback)
NewEngine(initialConcentrations, p) ==
    [timerId |-> Null, isRunning |-> FALSE, speed |-> SpeedUnit,
     currentState |-> initialConcentrations, currentTime |-> 0, params |-> p,
     currentBatchSize |-> 1, firstTickDone |-> FALSE]

NewHost == [timers |-> {}, nextId |-> 1, delay |-> Millis(0, 1),
            wasm |-> "idle", flight |-> NoFlight]

NoEmission ==
    [calls |-> 0, cycle |-> "none", awaiting |-> FALSE, starts |-> 0,
     first |-> [seen |-> FALSE, len |-> 0, from |-> 0, to |-> 0, dt |-> 0],
     last |-> [from |-> NoFlight.currentNum, pn |-> NoFlight.paramsNum,
               batchSize |-> 0, tape |-> <<>>, steps |-> <<>>,
               now |-> [time |-> 0,
                        concentrations |-> Concentrations(NoFlight.currentNum)],
               set |-> NoSet],
     set |-> NoSet]

IdleCore ==
    /\ bin = IdleBin /\ state = ZeroState /\ params = ZeroParams
    /\ prev = ZeroState /\ blk = NoBlocks /\ ticks = 0 /\ drv = IdleDrv

InitEngine ==
    /\ IdleCore
    /\ \E p \in EngineParams :
          /\ store = InitialStore(p)
          /\ eng = NewEngine(store.concentrations, p)
    /\ host = NewHost
    /\ runner = EffectDeps(store)
    /\ obs = NoEmission

\* no executeStep is suspended: a task of the event loop runs only after
\* the microtasks of the task before it, the continuation of an await on
\* the loaded module among them, have run
TaskBoundary == ~host.flight.active

TimersLeft == host.nextId <= MaxTimers

\* engine.start() on an engine that is not running
Start ==
    /\ TaskBoundary /\ TimersLeft
    /\ ~eng.isRunning
    /\ Commit([start(World) EXCEPT !.obs.awaiting = TRUE,
                                   !.obs.starts = Min(2, @ + 1)])
    /\ UNCHANGED coreVars

\* engine.start() on a running engine
StartAgain ==
    /\ TaskBoundary
    /\ eng.isRunning
    /\ Commit(start(World))
    /\ UNCHANGED coreVars

\* engine.stop()
Stop ==
    /\ TaskBoundary
    /\ Commit(stop(World))
    /\ UNCHANGED coreVars

\* engine.reset(initialConcentrations)
Reset ==
    /\ TaskBoundary
    /\ Commit(reset(World, InitialStore(eng.params).concentrations))
    /\ UNCHANGED coreVars

\* engine.updateState(concentrations, time) with the store's values, as the
\* runner's effects call it
UpdateState ==
    /\ TaskBoundary
    /\ Commit(updateState(World, store.concentrations, store.time))
    /\ UNCHANGED coreVars

\* engine.setSpeed(speed)
SetSpeed ==
    /\ TaskBoundary
    /\ \E speed \in SpeedSet : Commit(setSpeed(World, speed))
    /\ UNCHANGED coreVars

\* the import and initialisation of the module begun by initWasm() end
WasmLoaded ==
    /\ TaskBoundary
    /\ host.wasm = "loading"
    /\ host' = [host EXCEPT !.wasm = "ready"]
    /\ UNCHANGED <<coreVars, eng, store, runner, obs>>

\* they fail: wasmReady resolves to false and is never replaced
WasmFailed ==
    /\ TaskBoundary
    /\ host.wasm = "loading"
    /\ host' = [host EXCEPT !.wasm = "failed"]
    /\ UNCHANGED <<coreVars, eng, store, runner, obs>>

\* a pending timer expires and calls executeStep, which runs to its first
\* await or return
TimerFires ==
    /\ TaskBoundary /\ TimersLeft
    /\ \E t \in host.timers :
          Commit(executeStep([World EXCEPT !.host.timers = @ \ {t}]))
    /\ UNCHANGED coreVars

\* the awaited call returns and executeStep runs to its end
AwaitResolves ==
    /\ host.flight.active
    /\ \E tape \in Tapes(host.flight.currentNum, host.flight.paramsNum,
                         NormalizeSteps(host.flight.batchSize)) :
          Commit(Resumed(World, tape))
    /\ UNCHANGED coreVars

NextEngine ==
    \/ Start \/ StartAgain \/ Stop \/ Reset \/ UpdateState \/ SetSpeed
    \/ WasmLoaded \/ WasmFailed \/ TimerFires \/ AwaitResolves

SpecEngine == InitEngine /\ [][NextEngine]_vars

\* C13: retry without advancing.  Whenever executeStep runs on a running
\* engine while the module is not ready, or its call returns nothing, the
\* engine's currentState and currentTime are unchanged, the callback is not
\* invoked, and a further attempt is scheduled: the engine is still running
\* and its timerId is a pending timer.  The engine's time never advances
\* without an invocation of the callback by the step that advanced it.
C13_RetryWithoutAdvancing ==
    [][/\ (TimerFires /\ eng.isRunning /\ ~isWasmReady(World)) =>
            /\ eng'.currentState = eng.currentState
            /\ eng'.currentTime = eng.currentTime
            /\ obs'.calls = obs.calls /\ store' = store
            /\ obs'.cycle = "retry"
            /\ eng'.isRunning
            /\ eng'.timerId # Null /\ eng'.timerId.val \in host'.timers
            /\ eng'.timerId.val \notin host.timers
       /\ (AwaitResolves /\ obs'.cycle = "retry") =>
            /\ eng'.currentState = eng.currentState
            /\ eng'.currentTime = eng.currentTime
            /\ obs'.calls = obs.calls /\ store' = store
            /\ (eng.isRunning =>
                  eng'.timerId # Null /\ eng'.timerId.val \in host'.timers)
       /\ ((TimerFires \/ AwaitResolves) /\ eng'.currentTime # eng.currentTime)
            => obs'.calls = obs.calls + 1]_vars

\* a running engine whose last executeStep found the module not ready: no
\* step was emitted, the time is still 0 and the retry timer is pending
C13_Witness ==
    /\ obs.cycle = "retry" /\ eng.isRunning /\ ~isWasmReady(World)
    /\ obs.calls = 0 /\ eng.currentTime = 0
    /\ eng.timerId # Null /\ eng.timerId.val \in host.timers
    /\ eng.timerId.val > 1

\* C14: single-step first cycle.  After every start() of a stopped engine the
\* first emission given to the callback carries exactly one simulated step,
\* whose time is the engine's time plus one dt, at every speed and for every
\* interleaving of start, stop, reset and setSpeed with the timers and the
\* steps of the engine.
C14_SingleStepFirstCycle ==
    obs.first.seen =>
        /\ obs.first.len = 1
        /\ obs.first.to = obs.first.from + obs.first.dt

\* an engine restarted at 11x after a cycle of three steps: the first
\* emission after the second start carried one step, and the next cycle is
\* scheduled with three
C14_Witness ==
    /\ obs.starts = 2 /\ obs.first.seen /\ ~obs.awaiting
    /\ eng.speed = 11 * SpeedUnit /\ eng.currentBatchSize = 3
    /\ obs.first.from = 4 * obs.first.dt
    /\ obs.first.len = 1

\* the engine's state and time, the number of callback invocations and the
\* store are the same after the step as before it
EngineQuiet ==
    /\ eng'.currentState = eng.currentState
    /\ eng'.currentTime = eng.currentTime
    /\ obs'.calls = obs.calls
    /\ store' = store

\* C21: stop is effective.  When stop() returns the engine is not running
\* and holds no timer; an engine that is not running has no timer pending
\* and no executeStep suspended; and from then until the next start() no
\* step of the engine (a timer task, the rest of an executeStep, the end of
\* the module's loading) and no stop() or setSpeed() changes currentState or
\* currentTime or invokes the callback.
C21_StopEffective ==
    [][/\ Stop => (~eng'.isRunning /\ eng'.timerId = Null)
       /\ ~eng'.isRunning => (host'.timers = {} /\ ~host'.flight.active)
       /\ (~eng.isRunning /\ ~Start /\ ~Reset /\ ~UpdateState) => EngineQuiet
       /\ (~eng.isRunning /\ (TimerFires \/ AwaitResolves)) => EngineQuiet]_vars

\* a stop() that cancelled the pending timer of a running engine after an
\* emission: the engine is stopped with its state as the emission left it
C21_Witness ==
    /\ ~eng.isRunning /\ eng.timerId = Null /\ host.timers = {}
    /\ obs.calls > 0 /\ obs.cycle = "emitted"
    /\ eng.currentTime = obs.last.now.time /\ eng.currentTime > 0
    /\ eng.firstTickDone /\ host.nextId > 2

\* the step chains that are live: the pending timers that will call
\* executeStep, and the executeStep that is suspended at its await
LiveChains(h) == Cardinality(h.timers) + (IF h.flight.active THEN 1 ELSE 0)

\* C22: at most one step chain.  After every step there is at most one
\* pending timer or suspended executeStep, the engine's timerId names the
\* pending timer if there is one, and a chain is live only while the engine
\* is running; start() on a running engine changes nothing of the engine or
\* of its timers.
C22_OneStepChain ==
    [][/\ LiveChains(host') <= 1
       /\ host'.timers \subseteq
            (IF eng'.timerId = Null THEN {} ELSE {eng'.timerId.val})
       /\ LiveChains(host') = 1 => eng'.isRunning
       /\ StartAgain => UNCHANGED <<eng, host, store, obs>>]_vars

\* an engine started, stopped after its emissions and started again: one
\* timer is pending, the fourth or a later one set
C22_Witness ==
    /\ eng.isRunning /\ LiveChains(host) = 1 /\ host.timers # {}
    /\ obs.starts = 2 /\ obs.calls >= 2 /\ host.nextId >= 5
    /\ eng.currentTime > 0

\* getCurrentState(): { time, concentrations }
getCurrentState(en) ==
    [time |-> en.currentTime, concentrations |-> en.currentState]

\* the engine's state and time as the numeric state of a module call
CurrentNum(en) == NumericStep(en.currentState, en.currentTime)

\* C23: reset and updateState are not lost.  After reset(initial) the engine
\* reports the initial concentrations at time 0 and is not running; after
\* updateState(c, t) it reports (c, t); what it reports changes only by a
\* reset(), an updateState() or an emission; and every emission is computed
\* from what the engine reported when the emitting step ended its wait, so
\* from the values of the last reset() or updateState() when there was one
\* since the emission before.
C23_ResetAndUpdateKept ==
    [][/\ Reset =>
            /\ getCurrentState(eng') =
                 [time |-> 0,
                  concentrations |-> InitialStore(eng.params).concentrations]
            /\ ~eng'.isRunning
       /\ UpdateState =>
            getCurrentState(eng') =
                [time |-> store.time, concentrations |-> store.concentrations]
       /\ (~Reset /\ ~UpdateState /\ obs'.calls = obs.calls) =>
            getCurrentState(eng') = getCurrentState(eng)
       /\ obs'.calls # obs.calls =>
            /\ obs'.last.from = CurrentNum(eng)
            /\ obs.set.kind # "none" => obs'.last.from = obs.set.num
            /\ getCurrentState(eng') = obs'.last.now]_vars

\* a running engine that was reset, started and then given the store's
\* state, ahead of its own, by updateState: its last emission started from
\* that state
C23_Witness ==
    /\ eng.isRunning /\ obs.cycle = "emitted" /\ obs.starts = 2
    /\ obs.last.set.kind = "update" /\ obs.last.set.num.TIEMPO > 0
    /\ obs.last.from = obs.last.set.num
    /\ obs.set.kind = "none"

----------------------------------------------------------------------------
(* Specification SpecApp: the store, the SimulationRunner mounted on it    *)
(* and its engine, driven by the buttons of the interface.  The store      *)
(* updates of one click are rendered together, and the runner's effects    *)
(* run after the render.                                                   *)

\* the render after a change of the store, followed by the runner's effects
Render(w) == Commit(Effects(w))

\* the Start/Stop button of MainContent
ClickStartStop ==
    /\ TaskBoundary /\ TimersLeft
    /\ Render([World EXCEPT !.store = handleStartStop(@)])
    /\ UNCHANGED coreVars

\* the Pause/Resume button of MainContent
ClickPauseResume ==
    /\ TaskBoundary /\ TimersLeft
    /\ store.status # "stopped"
    /\ Render([World EXCEPT !.store = handlePauseResume(@)])
    /\ UNCHANGED coreVars

\* the button of FitDialog that simulates on the main chart
ClickSimulateOnMainChart ==
    /\ TaskBoundary /\ TimersLeft
    /\ Render([World EXCEPT !.store = SimulateOnMainChart(@)])
    /\ UNCHANGED coreVars

\* the speed control
ChangeSpeed ==
    /\ TaskBoundary
    /\ \E speed \in SpeedSet \ {store.speed} :
          Render([World EXCEPT !.store = store_setSpeed(@, speed)])
    /\ UNCHANGED coreVars

\* a timer task: executeStep to its first await or return
StepBegins ==
    /\ TaskBoundary /\ TimersLeft
    /\ \E t \in host.timers :
          Render(executeStep([World EXCEPT !.host.timers = @ \ {t}]))
    /\ UNCHANGED coreVars

\* the rest of executeStep: the callback updates the store, which renders
StepEnds ==
    /\ host.flight.active
    /\ \E tape \in Tapes(host.flight.currentNum, host.flight.paramsNum,
                         NormalizeSteps(host.flight.batchSize)) :
          Render(Resumed(World, tape))
    /\ UNCHANGED coreVars

NextApp ==
    \/ ClickStartStop \/ ClickPauseResume \/ ClickSimulateOnMainChart
    \/ ChangeSpeed \/ WasmLoaded \/ WasmFailed \/ StepBegins \/ StepEnds

SpecApp == InitEngine /\ [][NextApp]_vars

\* a history entry or emitted step as the numeric state of a kernel call
StepState(step) ==
    [E |-> step.concentrations.E, ES |-> step.concentrations.ES,
     EP |-> step.concentrations.EP, S |-> step.concentrations.S,
     P |-> step.concentrations.P, TIEMPO |-> step.time]

\* b is the state one kernel step after a, for some draws of the step
OneStepApart(a, b, pn) ==
    \E rnd \in TickDraws(KernelState(a), KernelParams(a, pn)) :
        KernelStep(a, pn, rnd) = b

\* C15: emission of every time step.  The callback of a cycle of batch size
\* B > 1 is given exactly B states, each one kernel step after the one
\* before it, the first one step after the state the cycle started from; the
\* engine's state and time at that moment are the last of them; and any two
\* consecutive entries of the store's history are one kernel step apart.
C15_EveryStepEmitted ==
    /\ obs.last.batchSize > 1 =>
          /\ Len(obs.last.steps) = obs.last.batchSize
          /\ OneStepApart(obs.last.from, StepState(obs.last.steps[1]),
                          obs.last.pn)
          /\ \A i \in 1 .. (Len(obs.last.steps) - 1) :
                OneStepApart(StepState(obs.last.steps[i]),
                             StepState(obs.last.steps[i + 1]), obs.last.pn)
          /\ obs.last.now = obs.last.steps[Len(obs.last.steps)]
    /\ \A i \in 1 .. (Len(store.history) - 1) :
          OneStepApart(StepState(store.history[i]),
                       StepState(store.history[i + 1]),
                       paramsToNumbers(store.params))

----------------------------------------------------------------------------
(* Specification SpecStore: the simulation slice of the store under any    *)
(* sequence of its actions                                                 *)

\* the longest history
MaxHistory == 3

SimulationStatus == {"stopped", "running", "paused"}

\* the params set in the store: two enzyme counts
StoreParams ==
    {[p EXCEPT !.NEL = Whole(n)] : p \in EngineParams, n \in {1, MaxEnzyme}}

\* the steps given to runStep: one dt after the store's time, with one
\* complex formed or with all the enzyme bound
StoreSteps(st) ==
    {[time |-> st.time + st.params.dt.val,
      concentrations |-> [E |-> Whole(e), S |-> Whole(MaxSubstrate - 1),
                          ES |-> Whole(MaxEnzyme - e), EP |-> 0, P |-> 0]] :
        e \in {IF st.history = <<>> THEN 0 ELSE 1, 1}}

\* the status, time, history length and scrubIndex of a store
Summary(st) ==
    [status |-> st.status, time |-> st.time, len |-> Len(st.history),
     scrubIndex |-> st.scrubIndex]

\* what is kept of the last action for inspection: its name, the summary
\* of the store before it, and, for the run in progress if it began with a
\* fresh start, its first entry and the number of runStep calls since
Observed(ob, op, st) == [ob EXCEPT !.op = op, !.was = Summary(st)]

InitStore ==
    /\ IdleCore
    /\ eng = <<>> /\ host = <<>> /\ runner = <<>>
    /\ \E p \in StoreParams : store = InitialStore(p)
    /\ obs = [op |-> "none", was |-> Summary(store), fresh |-> FALSE, runSteps |-> 0,
              initial |-> [time |-> 0, concentrations |-> store.concentrations]]

StoreFrame == UNCHANGED <<coreVars, eng, host, runner>>

\* setStatus(status)
SetStatus ==
    /\ \E status \in SimulationStatus :
          /\ store' = setStatus(store, status)
          /\ obs' = IF status = "running" /\ store.status = "stopped"
                       /\ store.time = 0
                    THEN [Observed(obs, "setStatus", store)
                            EXCEPT !.fresh = TRUE, !.runSteps = 0,
                                   !.initial =
                                       [time |-> store.time,
                                        concentrations |-> store.concentrations]]
                    ELSE IF status = "stopped"
                    THEN [Observed(obs, "setStatus", store)
                            EXCEPT !.fresh = FALSE, !.runSteps = 0]
                    ELSE Observed(obs, "setStatus", store)
    /\ StoreFrame

\* resetSimulation()
ResetSimulation ==
    /\ store' = resetSimulation(store)
    /\ obs' = [Observed(obs, "resetSimulation", store)
                 EXCEPT !.fresh = FALSE, !.runSteps = 0]
    /\ StoreFrame

\* runStep(step)
RunStep ==
    /\ Len(store.history) < MaxHistory
    /\ \E step \in StoreSteps(store) : store' = runStep(store, step)
    /\ obs' = [Observed(obs, "runStep", store)
                 EXCEPT !.runSteps = IF obs.fresh THEN @ + 1 ELSE 0]
    /\ StoreFrame

\* setScrubIndex(clamped), as the timeline slider calls it: enabled while
\* paused with a history, with an index of the history
SetScrubIndex ==
    /\ store.status = "paused" /\ Len(store.history) > 0
    /\ \E idx \in 0 .. (Len(store.history) - 1) :
          store' = setScrubIndex(store, Num(idx))
    /\ obs' = Observed(obs, "setScrubIndex", store)
    /\ StoreFrame

\* setSpeed(speed)
StoreSetSpeed ==
    /\ \E speed \in SpeedSet \ {store.speed} :
          store' = store_setSpeed(store, speed)
    /\ obs' = Observed(obs, "setSpeed", store)
    /\ StoreFrame

\* setParams(params)
SetParams ==
    /\ \E p \in StoreParams \ {store.params} : store' = setParams(store, p)
    /\ obs' = Observed(obs, "setParams", store)
    /\ StoreFrame

\* pinCurrentRun()
PinCurrentRun ==
    /\ store.pinnedRuns = <<>>
    /\ store' = pinCurrentRun(store)
    /\ obs' = Observed(obs, "pinCurrentRun", store)
    /\ StoreFrame

NextStore ==
    \/ SetStatus \/ ResetSimulation \/ RunStep \/ SetScrubIndex
    \/ StoreSetSpeed \/ SetParams \/ PinCurrentRun

SpecStore == InitStore /\ [][NextStore]_vars

\* the entry of a history for a store's time and concentrations
Entry(st) == [time |-> st.time, concentrations |-> st.concentrations]

\* C24: fresh-run history.  setStatus("running") on a stopped store at time
\* 0 leaves a history of exactly one entry, the store's time and
\* concentrations; every runStep(step) appends exactly the step to the
\* history and makes it the store's time and concentrations; and during a
\* run begun by such a start the first entry of the history is the initial
\* state and the history has one entry more than runStep was called since.
C24_FreshRunHistory ==
    [][/\ (SetStatus /\ store.status = "stopped" /\ store.time = 0
             /\ store'.status = "running") =>
            /\ store'.history = <<Entry(store)>>
            /\ Entry(store') = Entry(store)
       /\ RunStep =>
            /\ Len(store'.history) = Len(store.history) + 1
            /\ SubSeq(store'.history, 1, Len(store.history)) = store.history
            /\ store'.history[Len(store'.history)] = Entry(store')
            /\ store'.history[Len(store'.history)] \in StoreSteps(store)
       /\ obs'.fresh =>
            /\ Len(store'.history) = 1 + obs'.runSteps
            /\ store'.history[1] = obs'.initial]_vars

\* a run begun by a fresh start, paused after its second runStep: three
\* entries, the first at time 0
C24_Witness ==
    /\ obs.fresh /\ obs.runSteps = 2 /\ store.status = "paused"
    /\ Len(store.history) = 3 /\ store.history[1].time = 0
    /\ store.history[3] = Entry(store) /\ store.time > 0

\* everything of the run but status and scrubIndex is the same in both
\* stores
RunIntact(a, b) ==
    /\ b.history = a.history /\ b.time = a.time
    /\ b.concentrations = a.concentrations /\ b.params = a.params
    /\ b.speed = a.speed /\ b.pinnedRuns = a.pinnedRuns

\* C25: pause and resume keep the run intact.  setStatus("paused") on a
\* running store and setStatus("running") on a paused one leave history,
\* time, concentrations, params, speed and pinnedRuns as they were; the
\* pause sets scrubIndex to the last index of the history, or to null when
\* the history is empty, and the resume sets it to null.
C25_PauseResumeKeepRun ==
    [][/\ (SetStatus /\ store.status = "running" /\ store'.status = "paused") =>
            /\ RunIntact(store, store')
            /\ store'.scrubIndex = IF Len(store.history) > 0
                                   THEN Num(Len(store.history) - 1) ELSE Null
       /\ (SetStatus /\ store.status = "paused" /\ store'.status = "running") =>
            /\ RunIntact(store, store')
            /\ store'.scrubIndex = Null]_vars

\* a run with a pinned copy, resumed from a pause in which the view was
\* moved to the first entry
C25_Witness ==
    /\ obs.op = "setStatus" /\ obs.was.status = "paused"
    /\ obs.was.scrubIndex = Num(0) /\ obs.was.len >= 2
    /\ store.status = "running" /\ store.scrubIndex = Null
    /\ Len(store.history) = obs.was.len /\ store.time = obs.was.time
    /\ store.pinnedRuns # <<>>

\* C26: resetSimulation.  From every store state resetSimulation() leaves
\* status "stopped", time 0, an empty history and the concentrations
\* E = NEL, S = NS, ES = NES, EP = NEP, P = NP of the store's params at the
\* call, and leaves params, speed and pinnedRuns as they were.
C26_ResetSimulation ==
    [][ResetSimulation =>
          /\ store'.status = "stopped" /\ store'.time = 0
          /\ store'.history = <<>>
          /\ store'.concentrations =
               [E |-> store.params.NEL, S |-> store.params.NS,
                ES |-> store.params.NES, EP |-> store.params.NEP,
                P |-> store.params.NP]
          /\ store'.params = store.params /\ store'.speed = store.speed
          /\ store'.pinnedRuns = store.pinnedRuns]_vars

\* a reset of a running store with three entries, a pinned run, the speed
\* at 11x and the smaller enzyme count in its params
C26_Witness ==
    /\ obs.op = "resetSimulation" /\ obs.was.status = "running"
    /\ obs.was.len = 3 /\ obs.was.time > 0
    /\ store.status = "stopped" /\ store.time = 0 /\ store.history = <<>>
    /\ store.concentrations.E = Whole(1) /\ store.params.NEL = Whole(1)
    /\ store.speed = 11 * SpeedUnit /\ store.pinnedRuns # <<>>

\* C27: scrub index validity.  After any sequence of actions of the store,
\* scrubIndex is not null only while the status is "paused", and when it is
\* not null it is an index of the history: 0 <= scrubIndex < history.length.
C27_ScrubIndexValid ==
    store.scrubIndex # Null =>
        /\ store.status = "paused"
        /\ 0 <= store.scrubIndex.val
        /\ store.scrubIndex.val < Len(store.history)

----------------------------------------------------------------------------
(* Specification SpecSchedule: one engine started, stopped and stepped at  *)
(* speeds from below the lowest to above the highest the engine accepts    *)

\* the speeds given to setSpeed: negative, 0.01x, 1x, 10x, 10.01x, 300x,
\* 305x, 500x and 20,000x
RawSpeeds ==
    {0 - SpeedUnit, 1, SpeedUnit, 10 * SpeedUnit, 10 * SpeedUnit + 1,
     300 * SpeedUnit, 305 * SpeedUnit, 500 * SpeedUnit, 20000 * SpeedUnit}

\* engine.setSpeed(speed) with any of the speeds
SetRawSpeed ==
    /\ TaskBoundary
    /\ \E speed \in RawSpeeds : Commit(setSpeed(World, speed))
    /\ UNCHANGED coreVars

\* the largest batch whose steps are run
MaxBatchRun == 3

\* a timer task of a cycle of at most MaxBatchRun steps
SmallBatchTimerFires == eng.currentBatchSize <= MaxBatchRun /\ TimerFires

NextSchedule ==
    \/ Start \/ Stop \/ SetRawSpeed \/ WasmLoaded \/ WasmFailed
    \/ SmallBatchTimerFires \/ AwaitResolves

SpecSchedule == InitEngine /\ [][NextSchedule]_vars

\* the step ends with a timer set by scheduleNextStep
Scheduled ==
    /\ Start \/ AwaitResolves
    /\ eng'.timerId # Null /\ eng'.timerId # eng.timerId

\* two delays are the same number of milliseconds
SameDelay(a, b) == a.num * b.den = b.num * a.den

\* the speed is within 0.01x .. 10,000x, and setSpeed leaves the speed it
\* is given or one of the two limits
SpeedClamped ==
    /\ eng'.speed >= 1 /\ eng'.speed <= 10000 * SpeedUnit
    /\ SetRawSpeed =>
          eng'.speed \in RawSpeeds \cup {1, 10000 * SpeedUnit}

\* the batch size of the engine and of a suspended executeStep is an
\* integer of 1 .. 100, and 1 until the first tick after start() is done
BatchWithinRange ==
    /\ eng'.currentBatchSize \in 1 .. 100
    /\ host'.flight.active => host'.flight.batchSize \in 1 .. 100
    /\ (eng'.isRunning /\ ~eng'.firstTickDone) =>
          /\ eng'.currentBatchSize = 1
          /\ host'.flight.active => host'.flight.batchSize = 1

====
